---- MODULE Spec2Model ----
(***************************************************************************)
(* CashFlow Automator (apps-script-cash-closures).                         *)
(*                                                                         *)
(* Three parts of the program are modelled, each with its own              *)
(* specification over the module's variables:                              *)
(*   SpecLedger  updateSpreadsheet, the fill-only merge into the ledger    *)
(*   SpecEmail   processEmails / processEmailThreads, the durable index    *)
(*               and the destination store                                 *)
(*   SpecSched   startProcessing / processNextBatch / processFiles,        *)
(*               the checkpointed batch scheduler                          *)
(*   SpecSchedFair  one start of the scheduler and its continuations,      *)
(*               without platform faults, every continuation firing       *)
(***************************************************************************)
EXTENDS Integers, Sequences, FiniteSets, TLC

(***************************************************************************)
(* Sequence helpers.                                                       *)
(***************************************************************************)
Range(s) ==
    { s[i] : i \in DOMAIN s }

RECURSIVE SeqFilter(_, _)
\* the elements of s that are in the set keep, in order (Array.filter)
SeqFilter(s, keep) ==
    IF s = << >> THEN << >>
    ELSE IF Head(s) \in keep THEN << Head(s) >> \o SeqFilter(Tail(s), keep)
    ELSE SeqFilter(Tail(s), keep)

\* Array.slice(0, n)
Slice(s, n) ==
    SubSeq(s, 1, IF Len(s) < n THEN Len(s) ELSE n)

(***************************************************************************)
(* Text is a sequence of one-character strings.  Numbers are exact         *)
(* decimals [m |-> mantissa, e |-> number of decimal places], canonical    *)
(* when the fraction has no trailing zero; NaN is the failed parse.        *)
(* JavaScript doubles print and compare as these decimals for the amounts  *)
(* of a cash closure (far below 2^53).                                     *)
(***************************************************************************)
Digits ==
    { "0", "1", "2", "3", "4", "5", "6", "7", "8", "9" }

DigitVal(c) ==
    CASE c = "0" -> 0 [] c = "1" -> 1 [] c = "2" -> 2 [] c = "3" -> 3
      [] c = "4" -> 4 [] c = "5" -> 5 [] c = "6" -> 6 [] c = "7" -> 7
      [] c = "8" -> 8 [] c = "9" -> 9

NaN ==
    [k |-> "nan"]

Num(m, e) ==
    [k |-> "num", m |-> m, e |-> e]

RECURSIVE Canon(_)
\* the canonical form of a decimal: no trailing zero in the fraction
Canon(n) ==
    IF n.e > 0 /\ n.m % 10 = 0 THEN Canon(Num(n.m \div 10, n.e - 1)) ELSE n

RECURSIVE DigitPrefix(_)
\* the longest prefix of s made of digits
DigitPrefix(s) ==
    IF s = << >> \/ Head(s) \notin Digits THEN << >>
    ELSE << Head(s) >> \o DigitPrefix(Tail(s))

RECURSIVE DigitsToNat(_)
DigitsToNat(s) ==
    IF s = << >> THEN 0
    ELSE DigitsToNat(SubSeq(s, 1, Len(s) - 1)) * 10 + DigitVal(s[Len(s)])

\* Math.abs(parseFloat(s)) for a text of digits, '.', ',' and '-': an optional
\* sign, digits, an optional '.' and digits; the parse stops at the first
\* character that does not continue the literal.
AbsParseFloat(s) ==
    LET body  == IF s # << >> /\ Head(s) = "-" THEN Tail(s) ELSE s
        ip    == DigitPrefix(body)
        rest  == SubSeq(body, Len(ip) + 1, Len(body))
        fp    == IF rest # << >> /\ Head(rest) = "." THEN DigitPrefix(Tail(rest))
                 ELSE << >>
    IN  IF ip = << >> /\ fp = << >> THEN NaN
        ELSE Canon(Num(DigitsToNat(ip \o fp), Len(fp)))

RECURSIVE RemoveAll(_, _)
\* str.replace(/c/g, '')
RemoveAll(s, c) ==
    IF s = << >> THEN << >>
    ELSE IF Head(s) = c THEN RemoveAll(Tail(s), c)
    ELSE << Head(s) >> \o RemoveAll(Tail(s), c)

RECURSIVE ReplaceFirst(_, _, _)
\* str.replace(c, d) with a string pattern: the first occurrence only
ReplaceFirst(s, c, d) ==
    IF s = << >> THEN << >>
    ELSE IF Head(s) = c THEN << d >> \o Tail(s)
    ELSE << Head(s) >> \o ReplaceFirst(Tail(s), c, d)

RECURSIVE UpToFirst(_, _)
\* the part of s before the first c (all of s when it holds none)
UpToFirst(s, c) ==
    IF s = << >> \/ Head(s) = c THEN << >>
    ELSE << Head(s) >> \o UpToFirst(Tail(s), c)

\* the part of s after the first c
AfterFirst(s, c) ==
    SubSeq(s, Len(UpToFirst(s, c)) + 2, Len(s))

Count(s, c) ==
    Cardinality({ i \in DOMAIN s : s[i] = c })

AmountChars ==
    Digits \cup { ".", ",", "-" }

\* the value '' that convertArgentineNumber returns for "no number"; written to
\* a cell it leaves the cell empty
Absent ==
    [k |-> "empty"]

\* a variant of convertArgentineNumber that reads ',' as the thousands
\* separator and '.' as the decimal one when both are present
convertArgentineNumberCommaThousands(str) ==
    IF str = << >> THEN Absent
    ELSE
      LET cleaned == SeqFilter(str, AmountChars)
          fixed   ==
            IF Count(cleaned, ".") > 0 /\ Count(cleaned, ",") > 0
              THEN RemoveAll(cleaned, ",")
            ELSE IF Count(cleaned, ",") > 0
              THEN ReplaceFirst(cleaned, ",", ".")
            ELSE IF Count(cleaned, ".") > 1
              THEN RemoveAll(cleaned, ".")
            ELSE cleaned
          number  == AbsParseFloat(fixed)
      IN  IF number = NaN THEN Absent ELSE number

\* a variant of convertArgentineNumber that takes every '.' without a ','
\* for a thousands separator
convertArgentineNumberDotThousands(str) ==
    IF str = << >> THEN Absent
    ELSE
      LET cleaned == SeqFilter(str, AmountChars)
          fixed   ==
            IF Count(cleaned, ".") > 0 /\ Count(cleaned, ",") > 0
              THEN ReplaceFirst(RemoveAll(cleaned, "."), ",", ".")
            ELSE IF Count(cleaned, ",") > 0
              THEN ReplaceFirst(cleaned, ",", ".")
            ELSE RemoveAll(cleaned, ".")
          number  == AbsParseFloat(fixed)
      IN  IF number = NaN THEN Absent ELSE number

convertArgentineNumber(str) ==
    IF str = << >> THEN Absent
    ELSE
      LET cleaned == SeqFilter(str, AmountChars)
          fixed   ==
            IF Count(cleaned, ".") > 0 /\ Count(cleaned, ",") > 0
              THEN ReplaceFirst(RemoveAll(cleaned, "."), ",", ".")
            ELSE IF Count(cleaned, ",") > 0
              THEN ReplaceFirst(cleaned, ",", ".")
            ELSE IF Count(cleaned, ".") > 1
              THEN RemoveAll(cleaned, ".")
            ELSE cleaned
          number  == AbsParseFloat(fixed)
      IN  IF number = NaN THEN Absent ELSE number

\* the character of a digit value
DigitChar(v) ==
    << "0", "1", "2", "3", "4", "5", "6", "7", "8", "9" >>[v + 1]

RECURSIVE NatToDigits(_)
\* the decimal digits of a natural number
NatToDigits(n) ==
    IF n < 10 THEN << DigitChar(n) >>
    ELSE NatToDigits(n \div 10) \o << DigitChar(n % 10) >>

RECURSIVE Pow10(_)
Pow10(e) ==
    IF e = 0 THEN 1 ELSE 10 * Pow10(e - 1)

RECURSIVE PadLeft(_, _)
PadLeft(s, n) ==
    IF Len(s) >= n THEN s ELSE PadLeft(<< "0" >> \o s, n)

\* String(v) for a number in plain decimal notation: the integer digits,
\* and '.' and the fraction digits when there is a fraction
ToPlainDecimal(n) ==
    NatToDigits(n.m \div Pow10(n.e))
      \o (IF n.e > 0 THEN << "." >> \o PadLeft(NatToDigits(n.m % Pow10(n.e)), n.e)
          ELSE << >>)

(***************************************************************************)
(* Dates.  A date value is the empty string (NoDate), a structured Date or *)
(* a string: [fmt |-> "Date" | "dmy" | "iso", day |-> d, pad |-> BOOLEAN]  *)
(* where "dmy" is DD/MM/YYYY text, "iso" is YYYY-MM-DD text and pad says   *)
(* that the text carries surrounding whitespace.                           *)
(***************************************************************************)
NoDate ==
    [fmt |-> "none", day |-> 0, pad |-> FALSE]

DmyText(d) ==
    [fmt |-> "dmy", day |-> d, pad |-> FALSE]

IsoText(d) ==
    [fmt |-> "iso", day |-> d, pad |-> FALSE]

\* a variant of normalizeDate without the rewriting of dd/mm/yyyy
normalizeDateTrimOnly(value) ==
    IF value = NoDate THEN NoDate
    ELSE IF value.fmt = "Date" THEN IsoText(value.day)
    ELSE [value EXCEPT !.pad = FALSE]

normalizeDate(value) ==
    IF value = NoDate THEN NoDate
    ELSE IF value.fmt = "Date" THEN IsoText(value.day)
    ELSE IF value.fmt = "dmy" /\ ~value.pad THEN IsoText(value.day)
    ELSE [value EXCEPT !.pad = FALSE]

(***************************************************************************)
(* The ledger: the data rows of the sheet below its header row.  A row is  *)
(* [date, shift, branch, cells], cells mapping each amount column of the   *)
(* header to the cell's value: EmptyCell (''), a number, or text (a string *)
(* of blanks is BlankText).                                                *)
(***************************************************************************)
EmptyCell ==
    [k |-> "empty"]

BlankText ==
    [k |-> "text", blank |-> TRUE]

Zero ==
    Num(0, 0)

\* the pairs [dataField, sheetColumn] of updateSpreadsheet, in its order
fieldMappings ==
    << << "openingCash", "Opening Cash" >>,
       << "cashSales", "Cash Sales" >>,
       << "totalSales", "Total Sales" >>,
       << "cardSales", "Card Payments" >>,
       << "digitalPayments", "Digital Payments" >>,
       << "closingCash", "Closing Cash" >>,
       << "cashWithdrawal", "Cash Withdrawal" >> >>

DataFields ==
    { fieldMappings[i][1] : i \in DOMAIN fieldMappings }

SheetColumns ==
    { fieldMappings[i][2] : i \in DOMAIN fieldMappings }

\* normalizeDate(date) + '|' + shift + '|' + branch
CompositeKey(date, shift, branch) ==
    << normalizeDate(date), shift, branch >>

\* a variant of RowMapGet that gives the first data row to a key no row has
RowMapGetOrFirst(dataRows, key) ==
    LET hits == { i \in DOMAIN dataRows :
                    CompositeKey(dataRows[i].date, dataRows[i].shift,
                                 dataRows[i].branch) = key }
    IN  IF hits = {} THEN (IF dataRows = << >> THEN 0 ELSE 2)
        ELSE (CHOOSE i \in hits : \A j \in hits : j <= i) + 1

\* rowMap.get(key): the sheet row (data index + 2) of the last data row with
\* this key, 0 (undefined) when there is none
RowMapGet(dataRows, key) ==
    LET hits == { i \in DOMAIN dataRows :
                    CompositeKey(dataRows[i].date, dataRows[i].shift,
                                 dataRows[i].branch) = key }
    IN  IF hits = {} THEN 0
        ELSE (CHOOSE i \in hits : \A j \in hits : j <= i) + 1

\* a variant of CellIsFree that takes every cell for a free one
CellIsFreeAlways(existingValue) ==
    TRUE

\* !existingValue || existingValue === 0 || existingValue === ''
CellIsFree(existingValue) ==
    existingValue = EmptyCell \/ existingValue = Zero

\* a variant of FieldUpdates that writes a zero for a field the record lacks
FieldUpdatesAbsentAsZero(dataRows, rowData, sheetRow, mapping) ==
    LET dataField   == mapping[1]
        sheetColumn == mapping[2]
    IN  IF sheetColumn \in DOMAIN dataRows[sheetRow - 1].cells
           /\ CellIsFree(dataRows[sheetRow - 1].cells[sheetColumn])
        THEN << [row |-> sheetRow, column |-> sheetColumn,
                 value |-> IF rowData.amounts[dataField] # << >>
                           THEN convertArgentineNumber(rowData.amounts[dataField])
                           ELSE Zero] >>
        ELSE << >>

\* a variant of FieldUpdates that also writes over a populated cell whose
\* value is not the record's
FieldUpdatesWhenDifferent(dataRows, rowData, sheetRow, mapping) ==
    LET dataField   == mapping[1]
        sheetColumn == mapping[2]
    IN  IF rowData.amounts[dataField] # << >>
           /\ sheetColumn \in DOMAIN dataRows[sheetRow - 1].cells
           /\ \/ CellIsFree(dataRows[sheetRow - 1].cells[sheetColumn])
              \/ dataRows[sheetRow - 1].cells[sheetColumn]
                   # convertArgentineNumber(rowData.amounts[dataField])
        THEN << [row |-> sheetRow, column |-> sheetColumn,
                 value |-> convertArgentineNumber(rowData.amounts[dataField])] >>
        ELSE << >>

\* the update pushed for one field of one record (lines 56-69), or none
FieldUpdates(dataRows, rowData, sheetRow, mapping) ==
    LET dataField   == mapping[1]
        sheetColumn == mapping[2]
    IN  IF rowData.amounts[dataField] # << >>
           /\ sheetColumn \in DOMAIN dataRows[sheetRow - 1].cells
           /\ CellIsFree(dataRows[sheetRow - 1].cells[sheetColumn])
        THEN << [row |-> sheetRow, column |-> sheetColumn,
                 value |-> convertArgentineNumber(rowData.amounts[dataField])] >>
        ELSE << >>

RECURSIVE RecordUpdates(_, _, _, _)
\* fieldMappings.forEach over one record
RecordUpdates(dataRows, rowData, sheetRow, i) ==
    IF i > Len(fieldMappings) THEN << >>
    ELSE FieldUpdates(dataRows, rowData, sheetRow, fieldMappings[i])
           \o RecordUpdates(dataRows, rowData, sheetRow, i + 1)

RECURSIVE CollectUpdates(_, _)
\* rows.forEach: the list `updates`, every existing value read from the
\* snapshot dataRows taken before any write
CollectUpdates(dataRows, rows) ==
    IF rows = << >> THEN << >>
    ELSE
      LET rowData  == Head(rows)
          sheetRow == RowMapGet(dataRows,
                        CompositeKey(rowData.closureDate, rowData.shift,
                                     rowData.branch))
      IN  (IF sheetRow = 0 THEN << >>
           ELSE RecordUpdates(dataRows, rowData, sheetRow, 1))
            \o CollectUpdates(dataRows, Tail(rows))

RECURSIVE FirstSeen(_, _)
\* the distinct sheet rows of the updates in the order of their first update
\* (the key order of updatesByRow)
FirstSeen(updates, seen) ==
    IF updates = << >> THEN << >>
    ELSE IF Head(updates).row \in seen THEN FirstSeen(Tail(updates), seen)
    ELSE << Head(updates).row >>
           \o FirstSeen(Tail(updates), seen \cup { Head(updates).row })

RECURSIVE OfRow(_, _)
OfRow(updates, row) ==
    IF updates = << >> THEN << >>
    ELSE IF Head(updates).row = row THEN << Head(updates) >> \o OfRow(Tail(updates), row)
    ELSE OfRow(Tail(updates), row)

RECURSIVE GroupedByRow(_, _)
\* the order in which applySpreadsheetUpdates performs the writes
GroupedByRow(updates, rowOrder) ==
    IF rowOrder = << >> THEN << >>
    ELSE OfRow(updates, Head(rowOrder)) \o GroupedByRow(updates, Tail(rowOrder))

RECURSIVE SetValues(_, _)
\* sheet.getRange(row, column).setValue(value), write after write
SetValues(dataRows, writes) ==
    IF writes = << >> THEN dataRows
    ELSE
      LET u == Head(writes)
      IN  SetValues([dataRows EXCEPT ![u.row - 1].cells[u.column] = u.value],
                    Tail(writes))

applySpreadsheetUpdates(dataRows, updates) ==
    SetValues(dataRows, GroupedByRow(updates, FirstSeen(updates, {})))

\* the data rows after updateSpreadsheet(rows)
updateSpreadsheet(dataRows, rows) ==
    LET updates == CollectUpdates(dataRows, rows)
    IN  IF Len(updates) > 0 THEN applySpreadsheetUpdates(dataRows, updates)
        ELSE dataRows

\* the rows highlightUpdatedRows colours
updatedRows(dataRows, rows) ==
    { u.row : u \in Range(CollectUpdates(dataRows, rows)) }

(***************************************************************************)
(* Bounds of the model and the value domains the inputs are drawn from.    *)
(***************************************************************************)
MaxLedgerRows ==
    2

MaxRecords ==
    2

Days ==
    { 1, 2 }

DateValue(d) ==
    [fmt |-> "Date", day |-> d, pad |-> FALSE]

\* amount texts as extractAmount returns them
Amt950 ==
    << "9", ",", "5", "0" >>

Amt1234 ==
    << "1", ".", "2", "3", "4", ",", "5", "6" >>

Amt300 ==
    << "3", ",", "0", "0" >>

\* an amount the document states as zero
AmtZero ==
    << "0", ",", "0", "0" >>

NoAmounts ==
    [f \in DataFields |-> << >>]

NoCells ==
    [c \in SheetColumns |-> EmptyCell]

LedgerRowChoices ==
    { [date |-> dt, shift |-> "Morning", branch |-> "Centro",
       cells |-> [NoCells EXCEPT !["Total Sales"] = c[1], !["Cash Sales"] = c[2]]] :
        dt \in { DateValue(d) : d \in Days } \cup { IsoText(1) },
        c \in { << EmptyCell, EmptyCell >>, << Zero, Num(7, 0) >>,
                << Num(5, 0), EmptyCell >>, << BlankText, EmptyCell >> } }

RecordChoices ==
    { [closureDate |-> DmyText(d), shift |-> "Morning", branch |-> "Centro",
       amounts |-> [NoAmounts EXCEPT !["totalSales"] = a[1], !["cashSales"] = a[2]]] :
        d \in Days,
        a \in { << Amt950, << >> >>, << Amt1234, Amt300 >>, << << >>, << >> >>,
                << AmtZero, << >> >> } }

SeqsUpTo(S, n) ==
    UNION { [1..k -> S] : k \in 0..n }

(***************************************************************************)
(* The mail side.  A message is [ts, subject, pdfs, day]: its receive      *)
(* timestamp, its subject, the number of its PDF attachments and the day   *)
(* the search files it under.  A subject that matches EMAIL_SUBJECT_REGEX  *)
(* is "business <biz> - Daily Closure Report - DD/MM/YYYY - HH:MM:SS".     *)
(***************************************************************************)
SHIFT_CUTOFF_HOUR ==
    16

\* CONFIG.EMAIL_BATCH_SIZE, the batch-write threshold (8 in the source),
\* scaled to the mailbox of the model
EMAIL_BATCH_SIZE ==
    2

MaxRuns ==
    2

MaxDeletes ==
    1

NameLen(biz) ==
    CASE biz = "Sur" -> 3 [] biz = "ACME" -> 4 [] biz = "Norte" -> 5

Subject(biz, day, hour) ==
    [match |-> TRUE, biz |-> biz, day |-> day, hour |-> hour]

OtherSubject ==
    [match |-> FALSE, biz |-> "none", day |-> 0, hour |-> 0]

Msg(ts, subject, pdfs, day) ==
    [ts |-> ts, subject |-> subject, pdfs |-> pdfs, day |-> day]

\* the threads of the mailbox, in the order the search returns them
Mailbox ==
    << << Msg(1, Subject("Sur", 1, 9), 1, 1), Msg(2, Subject("Sur", 1, 10), 1, 1) >>,
       << Msg(3, Subject("Norte", 1, 18), 2, 1) >>,
       << Msg(4, Subject("ACME", 2, 9), 1, 2) >>,
       << Msg(5, OtherSubject, 1, 3), Msg(6, Subject("Norte", 3, 9), 0, 3) >> >>

\* the days a search can name; no mail arrived on the last one
MailDays ==
    { 1, 2, 3, 4 }

\* the date ranges the runs of the model search: each single day (as
\* processMyDates and reprocessDateEmails do) and one range of two days
SearchRanges ==
    { << d, d >> : d \in MailDays } \cup { << 2, 3 >> }

\* the offsets of the blanks in " - Daily Closure Report - DDMMYYYY - HHMMSS",
\* the sanitized subject after "business <biz>"
BlankOffsets ==
    { 1, 3, 9, 17, 24, 26, 35, 37 }

\* subject.replace(/[^\w\s-]/g, '').substring(0, 50): the business and the date
\* it names, and whether its 50th character is a blank
SubjectPrefix(subject) ==
    IF subject.match
    THEN [biz |-> subject.biz, day |-> subject.day,
          blankEnd |-> (50 - 9 - NameLen(subject.biz)) \in BlankOffsets]
    ELSE [biz |-> subject.biz, day |-> subject.day, blankEnd |-> FALSE]

generateEmailId(message) ==
    [ts |-> message.ts, text |-> SubjectPrefix(message.subject)]

\* line.trim() of an index line
TrimLine(line) ==
    [line EXCEPT !.text.blankEnd = FALSE]

\* generateFilename(match, index, totalAttachments), index counted from 1 here
generateFilename(subject, index, totalAttachments) ==
    [biz |-> subject.biz, day |-> subject.day,
     shift |-> IF subject.hour < SHIFT_CUTOFF_HOUR THEN "MORNING" ELSE "EVENING",
     suffix |-> IF totalAttachments > 1 THEN index ELSE 0]

AllMessages ==
    UNION { Range(Mailbox[t]) : t \in DOMAIN Mailbox }

FilenamesOf(message) ==
    IF message.subject.match
    THEN { generateFilename(message.subject, i, message.pdfs) : i \in 1..message.pdfs }
    ELSE {}

AllFilenames ==
    UNION { FilenamesOf(m) : m \in AllMessages }

\* GmailApp.search(query) for the days startDate..endDate
Search(startDate, endDate) ==
    SeqFilter(Mailbox, { th \in Range(Mailbox) : th[1].day \in startDate..endDate })

\* initializeIndex: the set the index lines are loaded into
LoadIndex(lines) ==
    { TrimLine(lines[i]) : i \in DOMAIN lines }

\* buildExistingFilesCache: the names of the PDFs of the destination folder and
\* of its date-named subfolders
buildExistingFilesCache(files) ==
    { f \in DOMAIN files : files[f] > 0 }

\* a variant of writeBatchToIndex that sets the content to the new lines alone
writeBatchToIndexNewOnly(lines, batch) ==
    batch

\* writeBatchToIndex: the content of the index file after the append
writeBatchToIndex(lines, batch) ==
    lines \o batch

\* s.includes(sub)
Includes(s, sub) ==
    \E i \in 1..(Len(s) - Len(sub) + 1) : SubSeq(s, i, i + Len(sub) - 1) = sub

\* the calendar dates of the days of the mailbox: day d is 0d/07/2025
YearText ==
    << "2", "0", "2", "5" >>

MonthText ==
    << "0", "7" >>

DayText(d) ==
    << "0", DigitChar(d) >>

\* the date parameter of reprocessDateEmails, YYYY/MM/DD
SlashDate(d) ==
    YearText \o << "/" >> \o MonthText \o << "/" >> \o DayText(d)

\* date.replace(/\//g, '-')
HyphenDate(date) ==
    [i \in DOMAIN date |-> IF date[i] = "/" THEN "-" ELSE date[i]]

BizText(biz) ==
    CASE biz = "Sur" -> << "S", "u", "r" >>
      [] biz = "ACME" -> << "A", "C", "M", "E" >>
      [] biz = "Norte" -> << "N", "o", "r", "t", "e" >>
      [] OTHER -> << >>

\* "business <biz> - Daily Closure Report - DD/MM/YYYY - " after
\* replace(/[^\w\s-]/g, ''), which takes the slashes out of the date
SanitizedSubject(biz, d) ==
    << "b", "u", "s", "i", "n", "e", "s", "s", " " >> \o BizText(biz)
    \o << " ", "-", " ", "D", "a", "i", "l", "y", " ",
          "C", "l", "o", "s", "u", "r", "e", " ",
          "R", "e", "p", "o", "r", "t", " ", "-", " " >>
    \o DayText(d) \o MonthText \o YearText \o << " ", "-", " " >>

\* the characters of an index line: the digits of getTime(), "_", and the
\* sanitized subject up to its 50th character or up to the time it names (of
\* which at most one digit is kept), without the last blank in a trimmed line
LineText(line) ==
    LET subject == SanitizedSubject(line.text.biz, line.text.day)
        cut     == SubSeq(subject, 1, IF Len(subject) < 50 THEN Len(subject) ELSE 50)
        kept    == IF cut[Len(cut)] = " " /\ ~line.text.blankEnd
                   THEN SubSeq(cut, 1, Len(cut) - 1) ELSE cut
    IN  NatToDigits(line.ts) \o << "_" >> \o kept

\* lines 979-987 of reprocessDateEmails: the lines the index is rewritten with
RemoveDateEntries(lines, date) ==
    SeqFilter(lines, { l \in Range(lines) : ~Includes(LineText(l), HyphenDate(date)) })

(***************************************************************************)
(* The scheduler side.  A pending document is [id, readable, text]:        *)
(* readable says that its conversion to text succeeds, and text is what    *)
(* the patterns of extractPDFData find in it: the closure date and hour    *)
(* (or none), the branch and the amounts.                                  *)
(***************************************************************************)
\* CONFIG.BATCH_SIZE (18 in the source), scaled to the folders of the model
BATCH_SIZE ==
    2

MAX_RETRIES ==
    3

MaxDocs ==
    3

\* the counters current_batch and files_processed of the model saturate at
\* MaxCount, so that a run that never ends is a cycle of the state graph
MaxCount ==
    4

UpTo(n) ==
    IF n < MaxCount THEN n ELSE MaxCount

\* the hour below which extractPDFData calls the shift Morning (line 231)
MorningBefore ==
    16

Closure(day, hour) ==
    [present |-> TRUE, day |-> day, hour |-> hour]

NoClosure ==
    [present |-> FALSE, day |-> 0, hour |-> 0]

DocText(closure, total) ==
    [closure |-> closure, branch |-> "Centro",
     amounts |-> [NoAmounts EXCEPT !["totalSales"] = total]]

\* the documents a source folder of the model can hold
DocChoices ==
    { [readable |-> TRUE,  text |-> DocText(Closure(1, 9), Amt950)],
      [readable |-> TRUE,  text |-> DocText(Closure(2, 18), Amt1234)],
      [readable |-> TRUE,  text |-> DocText(NoClosure, Amt300)],
      [readable |-> FALSE, text |-> DocText(Closure(1, 9), Amt950)] }

\* the sheet of the scheduler runs: a free cell, a populated one, and a row
\* without a date
SchedLedger ==
    << [date |-> DateValue(1), shift |-> "Morning", branch |-> "Centro",
        cells |-> NoCells],
       [date |-> IsoText(2), shift |-> "Evening", branch |-> "Centro",
        cells |-> [NoCells EXCEPT !["Total Sales"] = Num(5, 0)]],
       [date |-> NoDate, shift |-> "Evening", branch |-> "Centro",
        cells |-> NoCells] >>

\* the HH:MM:SS text of a closure line of hour h, on the minute mm
ClosureTime(h, mm) ==
    PadLeft(NatToDigits(h), 2) \o << ":" >> \o PadLeft(NatToDigits(mm), 2)
      \o << ":", "0", "0" >>

\* parseInt(closureTime.split(':')[0], 10)
HourOf(closureTime) ==
    DigitsToNat(DigitPrefix(UpToFirst(closureTime, ":")))

\* the hours a closure line can name
Hours ==
    0..23

\* the hour parsed out of the closure line of each hour of the day
ClosureHour ==
    [h \in Hours |-> HourOf(ClosureTime(h, 0))]

\* a variant of extractPDFData for which the hour 16 is still Morning
extractPDFDataInclusive(text, filename) ==
    [file |-> filename, error |-> FALSE,
     closureDate |-> IF text.closure.present THEN DmyText(text.closure.day) ELSE NoDate,
     shift |-> IF text.closure.present
                  /\ ClosureHour[text.closure.hour] <= MorningBefore
               THEN "Morning" ELSE "Evening",
     branch |-> text.branch,
     amounts |-> text.amounts]

extractPDFData(text, filename) ==
    [file |-> filename, error |-> FALSE,
     closureDate |-> IF text.closure.present THEN DmyText(text.closure.day) ELSE NoDate,
     shift |-> IF text.closure.present
                  /\ ClosureHour[text.closure.hour] < MorningBefore
               THEN "Morning" ELSE "Evening",
     branch |-> text.branch,
     amounts |-> text.amounts]

\* rows.push({ file, error }) of the catch of line 182
ErrorRow(filename) ==
    [file |-> filename, error |-> TRUE, closureDate |-> NoDate, shift |-> "",
     branch |-> "", amounts |-> NoAmounts]

\* a variant of HasClosureDate that takes every extracted record
HasClosureDateAlways(extractedData) ==
    TRUE

\* if (extractedData.closureDate) of line 162
HasClosureDate(extractedData) ==
    extractedData.closureDate # NoDate

\* the row processFiles pushes for one document
FileResult(pdf) ==
    IF ~pdf.readable THEN ErrorRow(pdf.id)
    ELSE LET extractedData == extractPDFData(pdf.text, pdf.id)
         IN  IF HasClosureDate(extractedData) THEN extractedData
             ELSE ErrorRow(pdf.id)

\* files.forEach of processFiles: the list rows
FileResults(files) ==
    [i \in DOMAIN files |-> FileResult(files[i])]

\* rows.filter(r => !r.error)
SuccessfulRows(rows) ==
    SeqFilter(rows, { r \in Range(rows) : ~r.error })

\* the documents processFiles puts into filesByDate
GroupedFiles(files) ==
    { files[i].id : i \in { j \in DOMAIN files : ~FileResult(files[j]).error } }

\* the names of the date folders organizeFiles finds or creates
DateFolders(files) ==
    { normalizeDate(FileResult(files[i]).closureDate) :
        i \in { j \in DOMAIN files : ~FileResult(files[j]).error } }

\* the names a date folder can have
FolderNames ==
    { IsoText(d) : d \in Days }

NoFolders ==
    [n \in FolderNames |-> 0]

\* a variant of UseFolder that creates a folder whether or not one exists
UseFolderCreateAlways(count) ==
    count + 1

\* lines 1381-1389 of organizeFiles: the folders of a date name after the
\* folder is looked up and, when there is none, created
UseFolder(count) ==
    IF count > 0 THEN count ELSE 1

\* the date folders after organizeFiles(rootFolder, filesByDate)
organizeFolders(flds, files) ==
    [n \in FolderNames |->
        IF n \in DateFolders(files) THEN UseFolder(flds[n]) ELSE flds[n]]

\* a variant of MovedFiles in which one failing moveTo ends the moving
MovedFilesNoneAfterFailure(files, moveFails) ==
    IF moveFails = {} THEN GroupedFiles(files) ELSE {}

\* files.forEach of lines 1392-1399: the documents that are moved, moveFails
\* being those whose moveTo throws
MovedFiles(files, moveFails) ==
    GroupedFiles(files) \ moveFails

\* the moved documents with the date folder each went to
FiledIn(files, moved) ==
    { << files[i].id, normalizeDate(FileResult(files[i]).closureDate) >> :
        i \in { j \in DOMAIN files : files[j].id \in moved } }

\* a variant of MoreFilesRemain that also continues after a batch that took
\* every pending document
MoreFilesRemainOrNone(pendingFiles, batchFiles) ==
    Len(pendingFiles) >= Len(batchFiles)

\* if (pendingFiles.length > batchFiles.length) of line 107
MoreFilesRemain(pendingFiles, batchFiles) ==
    Len(pendingFiles) > Len(batchFiles)

\* a variant of RetriesExhausted that allows one attempt more
RetriesExhaustedLate(attempts) ==
    attempts > MAX_RETRIES

\* if (attempts >= CONFIG.MAX_RETRIES) of line 348
RetriesExhausted(attempts) ==
    attempts >= MAX_RETRIES

VARIABLES
    ledger,        \* the data rows of the sheet
    highlighted,   \* the sheet rows coloured by highlightUpdatedRows
    ledgerBefore,  \* the data rows when the last updateSpreadsheet began
    lastRows,      \* the records of the last updateSpreadsheet
    sheetCalls,    \* 1 once updateSpreadsheet has been invoked, 0 before
    indexLines,    \* the lines of the index file (the durable ProcessedIndex)
    destFiles,     \* the PDFs of the destination folder: name -> how many
    created,       \* history: name -> how many createFile calls made it
    run,           \* the live processEmails invocation and its locals
    runStart,      \* history: the durable state when the last run began
    lastMsg,       \* history: what the last message step did
    runs,          \* the number of processEmails invocations so far
    deletes,       \* the number of files removed by the user so far
    props,         \* the script properties of the scheduler (RunState)
    triggers,      \* the number of scheduled processNextBatch triggers
    pending,       \* the PDFs of the source folder, in enumeration order
    folders,       \* the date-named folders of the source folder: name -> how many
    lastStep,      \* history: what the last scheduler operation did, and the
                   \* parity of the batch steps so far
    failedInARow,  \* history: failed batch attempts since the last start
                   \* or normally completed batch
    extracted,     \* history: the documents whose extraction succeeded
                   \* since the last start
    call,          \* one call of convertArgentineNumber or extractPDFData:
                   \* its argument and what it returned
    inflight,      \* the invocations that can overlap: where each stands and
                   \* the values it holds in its local variables
    handled        \* history: how often each document was processed, the
                   \* identifiers given to the index file, and the
                   \* invocations that wrote over the write of another

varsLedger ==
    << ledger, highlighted, ledgerBefore, lastRows, sheetCalls >>

varsEmail ==
    << indexLines, destFiles, created, run, runStart, lastMsg, runs, deletes >>

varsSched ==
    << props, triggers, pending, folders, lastStep, failedInARow, extracted >>

varsOverlap ==
    << inflight, handled >>

vars ==
    << varsLedger, varsEmail, varsSched, call, varsOverlap >>

\* a value not computed yet
Pending ==
    [k |-> "pending"]

NoCall ==
    [fn |-> "none", arg |-> << >>, result |-> Pending, again |-> Pending]

\* the invocations of the overlap model: a manual start and a scheduled
\* continuation of the batch run, and two invocations of processEmails
BatchInvocations ==
    { "manual", "scheduled" }

MailInvocations ==
    { "mailA", "mailB" }

IdleInvocation ==
    [pc |-> "idle", currentBatch |-> 0, totalProcessed |-> 0,
     pendingFiles |-> << >>, batchFiles |-> << >>, successful |-> 0,
     todo |-> << >>, processedEmails |-> {}, existingFilesCache |-> {},
     newlyProcessed |-> << >>, currentContent |-> << >>]

NothingHandled ==
    [times |-> [id \in 1..MaxDocs |-> 0], appended |-> {}, discarded |-> {}]

OverlapIdle ==
    /\ inflight = [i \in BatchInvocations \cup MailInvocations |-> IdleInvocation]
    /\ handled = NothingHandled

(***************************************************************************)
(* updateSpreadsheet as an operation on the sheet.                         *)
(***************************************************************************)
LedgerIdle ==
    /\ highlighted = {}
    /\ ledgerBefore = << >>
    /\ lastRows = << >>
    /\ sheetCalls = 0

\* updateSpreadsheet(rows) on the sheet as it is
UpdateSheet(rows) ==
    /\ ledgerBefore' = ledger
    /\ lastRows' = rows
    /\ ledger' = updateSpreadsheet(ledger, rows)
    /\ highlighted' = highlighted \cup updatedRows(ledger, rows)
    /\ sheetCalls' = 1

(***************************************************************************)
(* processEmails.  One invocation is live at a time; it advances one       *)
(* message per step.  The platform can end an invocation at any point.     *)
(***************************************************************************)
IdleRun ==
    [pc |-> "idle", forceReprocess |-> FALSE, threads |-> << >>,
     threadIndex |-> 1, msgIndex |-> 1, processedEmails |-> {},
     existingFilesCache |-> {}, newlyProcessed |-> << >>, end |-> "none",
     overtime |-> FALSE]

NoMsg ==
    [outcome |-> "none", message |-> Msg(0, OtherSubject, 0, 0), made |-> {},
     pushed |-> FALSE, flushed |-> FALSE, overtime |-> FALSE]

\* history of reprocessDateEmails: the day it was called for and the index
\* lines before its rewrite
NoReprocess ==
    [day |-> 0, before |-> << >>]

NoRunStart ==
    [forced |-> FALSE, threads |-> << >>, index |-> << >>,
     created |-> [f \in AllFilenames |-> 0], files |-> [f \in AllFilenames |-> 0],
     reprocess |-> NoReprocess]

EmailIdle ==
    /\ indexLines = << >>
    /\ destFiles = [f \in AllFilenames |-> 0]
    /\ created = [f \in AllFilenames |-> 0]
    /\ run = IdleRun
    /\ runStart = NoRunStart
    /\ lastMsg = NoMsg
    /\ runs = 0
    /\ deletes = 0

Ended(how) ==
    [IdleRun EXCEPT !.end = how]

\* processEmails(startDate, endDate, forceReprocess) up to the first thread,
\* lines being the content of the index file
BeginRun(lines, startDate, endDate, forceReprocess, reprocess) ==
    /\ run.pc = "idle"
    /\ runs < MaxRuns
    /\ runs' = runs + 1
    /\ LET threads == Search(startDate, endDate)
       IN  /\ run' = IF Len(threads) = 0 THEN Ended("empty")
                     ELSE [pc |-> "run", forceReprocess |-> forceReprocess,
                           threads |-> threads, threadIndex |-> 1, msgIndex |-> 1,
                           processedEmails |-> LoadIndex(lines),
                           existingFilesCache |-> buildExistingFilesCache(destFiles),
                           newlyProcessed |-> << >>, end |-> "none",
                           overtime |-> FALSE]
           /\ runStart' = [forced |-> forceReprocess, threads |-> threads,
                           index |-> lines, created |-> created,
                           files |-> destFiles, reprocess |-> reprocess]
    /\ lastMsg' = NoMsg
    /\ UNCHANGED << destFiles, created, deletes >>

StartRun(startDate, endDate, forceReprocess) ==
    /\ BeginRun(indexLines, startDate, endDate, forceReprocess, NoReprocess)
    /\ UNCHANGED indexLines

\* reprocessDateEmails(date, removeFromIndex) up to the first thread of the
\* run it starts
reprocessDateEmails(day, removeFromIndex) ==
    /\ indexLines' = IF removeFromIndex
                     THEN RemoveDateEntries(indexLines, SlashDate(day))
                     ELSE indexLines
    /\ BeginRun(indexLines', day, day, TRUE,
                IF removeFromIndex THEN [day |-> day, before |-> indexLines]
                ELSE NoReprocess)

CurrentMessage ==
    run.threads[run.threadIndex][run.msgIndex]

\* the position after the current message
Advance(r) ==
    IF r.msgIndex < Len(r.threads[r.threadIndex])
    THEN [r EXCEPT !.msgIndex = r.msgIndex + 1]
    ELSE [r EXCEPT !.threadIndex = r.threadIndex + 1, !.msgIndex = 1]

\* the index-skip check of line 1172
SkipsMessage(forceReprocess, processedEmails, emailId) ==
    ~forceReprocess /\ emailId \in processedEmails

\* a variant of CreatesFile that does not consult the cache
CreatesFileIgnoringCache(forceReprocess, existingFilesCache, newFilename) ==
    TRUE

\* the artifact check of line 1201: whether the attachment's file is created
CreatesFile(forceReprocess, existingFilesCache, newFilename) ==
    ~(~forceReprocess /\ newFilename \in existingFilesCache)

\* a variant of MarksProcessed that marks every message it reaches
MarksProcessedAlways(anyFileCreated, forceReprocess) ==
    TRUE

\* lines 1213-1228: whether the message's identifier goes to newlyProcessed
MarksProcessed(anyFileCreated, forceReprocess) ==
    anyFileCreated \/ forceReprocess

\* a variant of ReachesMarking that marks after a failed createFile too
ReachesMarkingAlways(thrown) ==
    TRUE

\* the try of lines 1186-1231: a throw of createFile leaves it before the
\* marking of lines 1212-1228
ReachesMarking(thrown) ==
    ~thrown

AddFiles(files, names) ==
    [f \in DOMAIN files |-> IF f \in names THEN files[f] + 1 ELSE files[f]]

\* one iteration of thread.getMessages().forEach; failAt > 0 makes createFile
\* throw for that attachment, should it be attempted
ProcessMessage(failAt) ==
    /\ run.pc = "run"
    /\ run.threadIndex <= Len(run.threads)
    /\ run.msgIndex = 1 => ~run.overtime
    /\ LET message == CurrentMessage
           emailId == generateEmailId(message)
           subject == message.subject
           name(i) == generateFilename(subject, i, message.pdfs)
           tries   == { i \in 1..message.pdfs :
                          CreatesFile(run.forceReprocess, run.existingFilesCache, name(i)) }
           thrown  == failAt \in tries
           made    == { name(i) : i \in { j \in tries : ~thrown \/ j < failAt } }
           anyFileCreated == made # {}
       IN  IF SkipsMessage(run.forceReprocess, run.processedEmails, emailId)
           THEN /\ run' = Advance(run)
                /\ lastMsg' = [NoMsg EXCEPT !.outcome = "skipped", !.message = message,
                                          !.overtime = run.overtime]
                /\ UNCHANGED << indexLines, destFiles, created >>
           ELSE IF ~subject.match
           THEN /\ run' = Advance(run)
                /\ lastMsg' = [NoMsg EXCEPT !.outcome = "invalid", !.message = message,
                                          !.overtime = run.overtime]
                /\ UNCHANGED << indexLines, destFiles, created >>
           ELSE IF message.pdfs = 0
           THEN /\ run' = Advance(run)
                /\ lastMsg' = [NoMsg EXCEPT !.outcome = "nopdf", !.message = message,
                                          !.overtime = run.overtime]
                /\ UNCHANGED << indexLines, destFiles, created >>
           ELSE
             LET pushed == /\ ReachesMarking(thrown)
                           /\ MarksProcessed(anyFileCreated, run.forceReprocess)
                 buffer == IF pushed THEN Append(run.newlyProcessed, emailId)
                           ELSE run.newlyProcessed
                 flush  == /\ ReachesMarking(thrown)
                           /\ anyFileCreated
                           /\ Len(buffer) >= EMAIL_BATCH_SIZE
             IN  /\ destFiles' = AddFiles(destFiles, made)
                 /\ created' = AddFiles(created, made)
                 /\ indexLines' = IF flush THEN writeBatchToIndex(indexLines, buffer)
                                  ELSE indexLines
                 /\ run' = Advance(
                      [run EXCEPT
                         !.newlyProcessed = IF flush THEN << >> ELSE buffer,
                         !.processedEmails =
                            IF flush THEN @ \cup Range(buffer) ELSE @])
                 /\ lastMsg' = [outcome |-> IF thrown THEN "error" ELSE "done",
                                message |-> message, made |-> made,
                                pushed |-> pushed, flushed |-> flush,
                                overtime |-> run.overtime]
    /\ UNCHANGED << runs, runStart, deletes >>

\* a variant of FinalWrite that returns without the final batch write
FinalWriteSkipped(how) ==
    /\ indexLines' = indexLines
    /\ run' = Ended(how)
    /\ lastMsg' = NoMsg
    /\ UNCHANGED << destFiles, created, runStart, runs, deletes >>

\* the final batch write of lines 1236-1239 and the return
FinalWrite(how) ==
    /\ indexLines' = IF Len(run.newlyProcessed) > 0
                     THEN writeBatchToIndex(indexLines, run.newlyProcessed)
                     ELSE indexLines
    /\ run' = Ended(how)
    /\ lastMsg' = NoMsg
    /\ UNCHANGED << destFiles, created, runStart, runs, deletes >>

\* the loop over the threads ends
FinishRun ==
    /\ run.pc = "run"
    /\ run.threadIndex > Len(run.threads)
    /\ FinalWrite("returned")

\* Date.now() - startTime passes CONFIG.MAX_EXECUTION_TIME while the
\* invocation runs
CeilingExceeded ==
    /\ run.pc = "run"
    /\ run.threadIndex <= Len(run.threads)
    /\ ~run.overtime
    /\ run' = [run EXCEPT !.overtime = TRUE]
    /\ UNCHANGED << indexLines, destFiles, created, runStart, lastMsg, runs, deletes >>

\* the execution time check of line 1158 finds the ceiling exceeded
TimeLimit ==
    /\ run.pc = "run"
    /\ run.threadIndex <= Len(run.threads)
    /\ run.msgIndex = 1
    /\ run.overtime
    /\ FinalWrite("timeLimit")

\* a variant of SaveOnError that appends the buffer a second time
SaveOnErrorTwice(lines, buffer, saved) ==
    IF Len(buffer) > 0 /\ saved
    THEN writeBatchToIndex(writeBatchToIndex(lines, buffer), buffer)
    ELSE lines

\* the catch of lines 1240-1250: the content of the index file after it;
\* saved = FALSE: the write of line 1244 fails too
SaveOnError(lines, buffer, saved) ==
    IF Len(buffer) > 0 /\ saved THEN writeBatchToIndex(lines, buffer) ELSE lines

\* an exception reaches the catch of line 1240, which saves the progress and
\* throws it on to the caller
ErrorEscapes(saved) ==
    /\ indexLines' = SaveOnError(indexLines, run.newlyProcessed, saved)
    /\ run' = Ended(IF saved \/ Len(run.newlyProcessed) = 0 THEN "error"
                    ELSE "errorUnsaved")
    /\ lastMsg' = NoMsg
    /\ UNCHANGED << destFiles, created, runStart, runs, deletes >>

\* thread.getMessages() throws (line 1166)
ThreadError(saved) ==
    /\ run.pc = "run"
    /\ run.threadIndex <= Len(run.threads)
    /\ run.msgIndex = 1
    /\ ErrorEscapes(saved)

\* a call on a later message of the thread throws outside the try of line
\* 1186 (message.getDate, message.getSubject, lines 1168-1169)
MessageError(saved) ==
    /\ run.pc = "run"
    /\ run.threadIndex <= Len(run.threads)
    /\ run.msgIndex > 1
    /\ ErrorEscapes(saved)

\* the final batch write of line 1238 throws before the content is set
FinalWriteError(saved) ==
    /\ run.pc = "run"
    /\ run.threadIndex > Len(run.threads)
    /\ Len(run.newlyProcessed) > 0
    /\ ErrorEscapes(saved)

\* the platform ends the invocation (execution limit, crash): its locals are
\* lost, the durable state stays
Killed ==
    /\ run.pc = "run"
    /\ run' = Ended("killed")
    /\ lastMsg' = NoMsg
    /\ UNCHANGED << indexLines, destFiles, created, runStart, runs, deletes >>

\* the issues diagnoseEmailIssues finds among the messages of the threads
Diagnosis(threads, processedEmails, existingFilesCache) ==
    { [type |-> IF ~m.subject.match THEN "INVALID_FORMAT"
                ELSE "INDEXED_BUT_MISSING_FILE",
       message |-> m] :
        m \in { x \in UNION { Range(threads[t]) : t \in DOMAIN threads } :
                  \/ ~x.subject.match
                  \/ /\ generateEmailId(x) \in processedEmails
                     /\ generateFilename(x.subject, 0, 1) \notin existingFilesCache } }

\* diagnoseEmailIssues(startDate, endDate); call holds the list it returns
\* until the next operation on the mailbox
diagnoseEmailIssues(startDate, endDate) ==
    /\ call' = [fn |-> "diagnoseEmailIssues",
                arg |-> [startDate |-> startDate, endDate |-> endDate,
                         index |-> indexLines, files |-> destFiles],
                result |-> [k |-> "issues",
                            issues |-> Diagnosis(Search(startDate, endDate),
                                                 LoadIndex(indexLines),
                                                 buildExistingFilesCache(destFiles))],
                again |-> Pending]
    /\ UNCHANGED varsEmail

\* an operation other than the diagnosis: its list is gone
NoReport ==
    call' = NoCall

\* the user removes one file from the destination folder (between runs, and
\* while a later run of the model can still see it)
DeleteFile(f) ==
    /\ run.pc = "idle"
    /\ runs < MaxRuns
    /\ deletes < MaxDeletes
    /\ destFiles[f] > 0
    /\ destFiles' = [destFiles EXCEPT ![f] = @ - 1]
    /\ deletes' = deletes + 1
    /\ UNCHANGED << indexLines, created, run, runStart, lastMsg, runs >>

(***************************************************************************)
(* startProcessing, processNextBatch, pauseProcessing, resumeProcessing.   *)
(* A batch step is one invocation; fault names the call of it that throws  *)
(* out of per-file handling, moveFails the documents whose moveTo fails.   *)
(***************************************************************************)
NoStep ==
    [op |-> "none", outcome |-> "none", pendingFiles |-> << >>,
     batchFiles |-> << >>, rows |-> << >>, wrote |-> << >>, moved |-> {},
     moveFails |-> {}, filed |-> {},
     before |-> << >>, parity |-> 0, pausedMeanwhile |-> FALSE]

\* the properties before startProcessing has ever run: processNextBatch reads
\* the defaults '1' and '0' for the missing ones
NoProps ==
    [processing_active |-> "unset", current_batch |-> 1, files_processed |-> 0,
     failed_attempts |-> 0]

SchedIdle ==
    /\ props = NoProps
    /\ triggers = 0
    /\ pending = << >>
    /\ folders = NoFolders
    /\ lastStep = NoStep
    /\ failedInARow = 0
    /\ extracted = {}

Faults ==
    { "none", "enumerate", "organize" }

\* finishProcessing(reason) on the properties p
finishProcessing(p) ==
    [p EXCEPT !.processing_active = "false"]

\* handleError() on the properties p: the step's outcome, the properties and
\* the triggers after it
handleError(p) ==
    LET attempts == p.failed_attempts + 1
    IN  IF RetriesExhausted(attempts)
        THEN [outcome |-> "failed", props |-> finishProcessing(p), triggers |-> 0]
        ELSE [outcome |-> "retry", props |-> [p EXCEPT !.failed_attempts = attempts],
              triggers |-> 1]

\* a variant of IsActive that takes every run for an active one
IsActiveAlways(p) ==
    TRUE

\* props.getProperty('processing_active') === 'true' (line 55)
IsActive(p) ==
    p.processing_active = "true"

AfterPauseIgnored(q, pausedMeanwhile) ==
    q

\* the properties q as pauseProcessing leaves them when it ran while the
\* batch was in progress (pausedMeanwhile), else q
AfterPause(q, pausedMeanwhile) ==
    IF pausedMeanwhile THEN [q EXCEPT !.processing_active = "false"] ELSE q

\* a variant of ProgressProps that leaves failed_attempts as it is
ProgressPropsKeepAttempts(p, successful) ==
    [p EXCEPT !.current_batch = UpTo(p.current_batch + 1),
              !.files_processed = UpTo(p.files_processed + successful)]

\* the progress a batch writes over the properties p (lines 94-98)
ProgressProps(p, successful) ==
    [p EXCEPT !.current_batch = UpTo(p.current_batch + 1),
              !.files_processed = UpTo(p.files_processed + successful),
              !.failed_attempts = 0]

\* processNextBatch() with the properties p as it finds them.  With
\* pausedMeanwhile, pauseProcessing runs between the check of line 55 and
\* the end of the invocation: it sets the flag and clears the triggers,
\* and what the invocation schedules at its end comes after that.
processNextBatch(p, trg, op, fault, moveFails, pausedMeanwhile) ==
    LET pendingFiles == pending
        batchFiles   == Slice(pendingFiles, BATCH_SIZE)
        rows         == FileResults(batchFiles)
        successful   == Len(SuccessfulRows(rows))
        sheet        == IF successful > 0
                        THEN updateSpreadsheet(ledger, SuccessfulRows(rows))
                        ELSE ledger
        moved        == MovedFiles(batchFiles, moveFails)
        sofar        == IF op = "start" THEN {} ELSE extracted
        step         == [op |-> op, outcome |-> "none", pendingFiles |-> pendingFiles,
                         batchFiles |-> << >>, rows |-> << >>, wrote |-> << >>,
                         moved |-> {}, moveFails |-> {}, filed |-> {},
                         before |-> << p >>,
                         parity |-> 1 - lastStep.parity,
                         pausedMeanwhile |-> pausedMeanwhile]
        failedStep(err, ran) ==
            /\ props' = AfterPause(err.props, pausedMeanwhile)
            /\ triggers' = err.triggers
            /\ lastStep' = [step EXCEPT !.outcome = err.outcome,
                              !.batchFiles = IF ran THEN batchFiles ELSE << >>,
                              !.rows = IF ran THEN rows ELSE << >>,
                              !.wrote = IF ran THEN SuccessfulRows(rows) ELSE << >>]
            /\ failedInARow' = (IF op = "start" THEN 0 ELSE failedInARow) + 1
            /\ extracted' = sofar \cup (IF ran THEN GroupedFiles(batchFiles) ELSE {})
    IN  IF ~IsActive(p)
        THEN /\ ~pausedMeanwhile
             /\ props' = p
             /\ triggers' = trg
             /\ lastStep' = [step EXCEPT !.outcome = "paused"]
             /\ UNCHANGED << pending, folders, failedInARow, extracted, varsLedger >>
        ELSE IF fault = "enumerate"
        THEN /\ failedStep(handleError(p), FALSE)
             /\ UNCHANGED << pending, folders, varsLedger >>
        ELSE IF Len(pendingFiles) = 0
        THEN /\ props' = AfterPause(finishProcessing(p), pausedMeanwhile)
             /\ triggers' = 0
             /\ lastStep' = [step EXCEPT !.outcome = "nothingPending"]
             /\ failedInARow' = IF op = "start" THEN 0 ELSE failedInARow
             /\ extracted' = sofar
             /\ UNCHANGED << pending, folders, varsLedger >>
        ELSE IF fault = "organize" /\ successful > 0
        THEN /\ failedStep(handleError(p), TRUE)
             /\ UpdateSheet(SuccessfulRows(rows))
             /\ UNCHANGED << pending, folders >>
        ELSE
          LET q == ProgressProps(p, successful)
              more == MoreFilesRemain(pendingFiles, batchFiles)
          IN  /\ IF successful > 0
                 THEN /\ UpdateSheet(SuccessfulRows(rows))
                      /\ folders' = organizeFolders(folders, batchFiles)
                      /\ pending' = SeqFilter(pendingFiles,
                                      { f \in Range(pendingFiles) : f.id \notin moved })
                 ELSE UNCHANGED << pending, folders, varsLedger >>
              /\ props' = AfterPause(IF more THEN q ELSE finishProcessing(q),
                                      pausedMeanwhile)
              /\ triggers' = IF more THEN 1 ELSE 0
              /\ lastStep' = [step EXCEPT
                                !.outcome = IF more THEN "scheduled" ELSE "completed",
                                !.batchFiles = batchFiles, !.rows = rows,
                                !.wrote = SuccessfulRows(rows),
                                !.moved = IF successful > 0 THEN moved ELSE {},
                                !.moveFails = IF successful > 0 THEN moveFails ELSE {},
                                !.filed = IF successful > 0
                                          THEN FiledIn(batchFiles, moved) ELSE {}]
              /\ failedInARow' = 0
              /\ extracted' = sofar \cup GroupedFiles(batchFiles)

\* a variant of StartProps that sets the flag and keeps the counters
StartPropsKeepCounters(p) ==
    [p EXCEPT !.processing_active = "true"]

\* the properties startProcessing writes over the properties p (lines 31-37)
StartProps(p) ==
    [processing_active |-> "true", current_batch |-> 1, files_processed |-> 0,
     failed_attempts |-> 0]

\* startProcessing(): clearTriggers, the reset of the properties, the first
\* batch step
startProcessing(fault, moveFails, pausedMeanwhile) ==
    /\ processNextBatch(StartProps(props), 0, "start", fault, moveFails,
                        pausedMeanwhile)
    /\ UNCHANGED << varsEmail, call, varsOverlap >>

\* a scheduled trigger fires and runs processNextBatch
TriggerFires(fault, moveFails, pausedMeanwhile) ==
    /\ triggers > 0
    /\ processNextBatch(props, triggers - 1, "trigger", fault, moveFails,
                        pausedMeanwhile)
    /\ UNCHANGED << varsEmail, call, varsOverlap >>

\* a variant of pauseProcessing that leaves the scheduled continuation in place
pauseProcessingKeepsTriggers ==
    /\ props' = [props EXCEPT !.processing_active = "false"]
    /\ triggers' = triggers
    /\ lastStep' = [NoStep EXCEPT !.op = "pause"]
    /\ UNCHANGED << pending, folders, failedInARow, extracted, varsLedger, varsEmail, call, varsOverlap >>

\* pauseProcessing(): the flag is cleared and clearTriggers() deletes the
\* continuations; the alert that follows fails on the undefined ui
pauseProcessing ==
    /\ props' = [props EXCEPT !.processing_active = "false"]
    /\ triggers' = 0
    /\ lastStep' = [NoStep EXCEPT !.op = "pause"]
    /\ UNCHANGED << pending, folders, failedInARow, extracted, varsLedger, varsEmail, call, varsOverlap >>

\* resumeProcessing(): the flag is set; the alert that follows names ui, which
\* the function does not define, so the call of processNextBatch is not reached
resumeProcessing ==
    /\ props' = [props EXCEPT !.processing_active = "true"]
    /\ lastStep' = [NoStep EXCEPT !.op = "resume"]
    /\ UNCHANGED << triggers, pending, folders, failedInARow, extracted, varsLedger, varsEmail, call, varsOverlap >>

(***************************************************************************)
(* Specifications.                                                         *)
(***************************************************************************)
InitLedger ==
    /\ ledger \in SeqsUpTo(LedgerRowChoices, MaxLedgerRows)
    /\ LedgerIdle
    /\ call = NoCall
    /\ OverlapIdle
    /\ EmailIdle
    /\ SchedIdle

MergeRecords ==
    /\ sheetCalls = 0
    /\ \E rows \in SeqsUpTo(RecordChoices, MaxRecords) : UpdateSheet(rows)
    /\ UNCHANGED << varsEmail, varsSched, call, varsOverlap >>

\* updateSpreadsheet(rows) once more with the records of the call before,
\* on the sheet that call left
MergeAgain ==
    /\ sheetCalls = 1
    /\ ledger' = updateSpreadsheet(ledger, lastRows)
    /\ highlighted' = highlighted \cup updatedRows(ledger, lastRows)
    /\ sheetCalls' = 2
    /\ UNCHANGED << ledgerBefore, lastRows, varsEmail, varsSched, call, varsOverlap >>

NextLedger ==
    \/ MergeRecords
    \/ MergeAgain

SpecLedger ==
    InitLedger /\ [][NextLedger]_vars

InitEmail ==
    /\ ledger = << >>
    /\ LedgerIdle
    /\ call = NoCall
    /\ OverlapIdle
    /\ EmailIdle
    /\ SchedIdle

NextEmail ==
    \/ /\ \E range \in SearchRanges, forceReprocess \in BOOLEAN :
            StartRun(range[1], range[2], forceReprocess)
       /\ NoReport /\ UNCHANGED << varsLedger, varsSched, varsOverlap >>
    \/ /\ \E day \in MailDays, removeFromIndex \in BOOLEAN :
            reprocessDateEmails(day, removeFromIndex)
       /\ NoReport /\ UNCHANGED << varsLedger, varsSched, varsOverlap >>
    \/ /\ \E failAt \in 0..2 : ProcessMessage(failAt)
       /\ NoReport /\ UNCHANGED << varsLedger, varsSched, varsOverlap >>
    \/ FinishRun /\ NoReport /\ UNCHANGED << varsLedger, varsSched, varsOverlap >>
    \/ CeilingExceeded /\ NoReport /\ UNCHANGED << varsLedger, varsSched, varsOverlap >>
    \/ TimeLimit /\ NoReport /\ UNCHANGED << varsLedger, varsSched, varsOverlap >>
    \/ (\E saved \in BOOLEAN : ThreadError(saved)) /\ NoReport /\ UNCHANGED << varsLedger, varsSched, varsOverlap >>
    \/ (\E saved \in BOOLEAN : MessageError(saved)) /\ NoReport /\ UNCHANGED << varsLedger, varsSched, varsOverlap >>
    \/ (\E saved \in BOOLEAN : FinalWriteError(saved)) /\ NoReport /\ UNCHANGED << varsLedger, varsSched, varsOverlap >>
    \/ Killed /\ NoReport /\ UNCHANGED << varsLedger, varsSched, varsOverlap >>
    \/ (\E f \in AllFilenames : DeleteFile(f)) /\ NoReport /\ UNCHANGED << varsLedger, varsSched, varsOverlap >>
    \/ /\ \E range \in SearchRanges : diagnoseEmailIssues(range[1], range[2])
       /\ UNCHANGED << varsLedger, varsSched, varsOverlap >>

SpecEmail ==
    InitEmail /\ [][NextEmail]_vars

\* the source folder holds up to MaxDocs documents; the sheet is SchedLedger
Folders ==
    { [i \in DOMAIN ds |-> [id |-> i, readable |-> ds[i].readable, text |-> ds[i].text]] :
        ds \in SeqsUpTo(DocChoices, MaxDocs) }

InitSched ==
    /\ ledger = SchedLedger
    /\ LedgerIdle
    /\ call = NoCall
    /\ OverlapIdle
    /\ EmailIdle
    /\ props = NoProps
    /\ triggers = 0
    /\ pending \in Folders
    /\ folders = NoFolders
    /\ lastStep = NoStep
    /\ failedInARow = 0
    /\ extracted = {}

\* at most one document of a batch fails to move
MoveFailures ==
    { {} } \cup { { id } : id \in GroupedFiles(Slice(pending, BATCH_SIZE)) }

NextSched ==
    \/ \E moveFails \in MoveFailures, pausedMeanwhile \in BOOLEAN :
         startProcessing("none", moveFails, pausedMeanwhile)
    \/ \E fault \in Faults \ { "none" }, pausedMeanwhile \in BOOLEAN :
         startProcessing(fault, {}, pausedMeanwhile)
    \/ \E moveFails \in MoveFailures, pausedMeanwhile \in BOOLEAN :
         TriggerFires("none", moveFails, pausedMeanwhile)
    \/ \E fault \in Faults \ { "none" }, pausedMeanwhile \in BOOLEAN :
         TriggerFires(fault, {}, pausedMeanwhile)
    \/ pauseProcessing
    \/ resumeProcessing

SpecSched ==
    InitSched /\ [][NextSched]_vars

\* a sheet that holds the header row only: no record finds its row
InitSchedFair ==
    /\ ledger = << >>
    /\ LedgerIdle
    /\ call = NoCall
    /\ OverlapIdle
    /\ EmailIdle
    /\ props = NoProps
    /\ triggers = 0
    /\ pending \in Folders
    /\ folders = NoFolders
    /\ lastStep = NoStep
    /\ failedInARow = 0
    /\ extracted = {}

\* one start() and then the continuations it schedules, every call of the
\* platform succeeding; a scheduled continuation eventually fires
NextSchedFair ==
    \/ lastStep.op = "none" /\ startProcessing("none", {}, FALSE)
    \/ TriggerFires("none", {}, FALSE)

SpecSchedFair ==
    InitSchedFair /\ [][NextSchedFair]_vars /\ WF_vars(TriggerFires("none", {}, FALSE))

(***************************************************************************)
(* Single calls of the pure functions: convertArgentineNumber on a text,   *)
(* once more on the text of what it returned, and extractPDFData on a      *)
(* document text with a closure line.                                      *)
(***************************************************************************)
MaxTextLen ==
    5

\* a digit, a zero, both separators, the sign and a character that is no
\* part of a number
TextChars ==
    { "5", "0", ".", ",", "-", "$" }

Txt1234c56 ==
    << "1", "2", "3", "4", ",", "5", "6" >>

Txt1p234p567 ==
    << "1", ".", "2", "3", "4", ".", "5", "6", "7" >>

\* '-$23.400,50': a sign, a currency symbol, a thousands dot, a decimal comma
TxtWithdrawal ==
    << "-", "$", "2", "3", ".", "4", "0", "0", ",", "5", "0" >>

NumberTexts ==
    SeqsUpTo(TextChars, MaxTextLen)
      \cup { Amt1234, Txt1234c56, Txt1p234p567, TxtWithdrawal }

ClosureTexts ==
    { DocText(Closure(d, h), Amt950) : d \in Days, h \in Hours }
      \cup { DocText(NoClosure, Amt950) }

InitCalls ==
    /\ ledger = << >>
    /\ LedgerIdle
    /\ OverlapIdle
    /\ EmailIdle
    /\ SchedIdle
    /\ \/ \E str \in NumberTexts :
            call = [NoCall EXCEPT !.fn = "convertArgentineNumber", !.arg = str]
       \/ \E text \in ClosureTexts :
            call = [NoCall EXCEPT !.fn = "extractPDFData", !.arg = text]

ConvertNumber ==
    /\ call.fn = "convertArgentineNumber"
    /\ call.result = Pending
    /\ call' = [call EXCEPT !.result = convertArgentineNumber(call.arg)]
    /\ UNCHANGED << varsLedger, varsEmail, varsSched, varsOverlap >>

\* the value returned, as text, through convertArgentineNumber again
ConvertAgain ==
    /\ call.fn = "convertArgentineNumber"
    /\ call.result # Pending
    /\ call.again = Pending
    /\ call' = [call EXCEPT !.again =
                  convertArgentineNumber(IF call.result = Absent THEN << >>
                                         ELSE ToPlainDecimal(call.result))]
    /\ UNCHANGED << varsLedger, varsEmail, varsSched, varsOverlap >>

ExtractData ==
    /\ call.fn = "extractPDFData"
    /\ call.result = Pending
    /\ call' = [call EXCEPT !.result = extractPDFData(call.arg, 1)]
    /\ UNCHANGED << varsLedger, varsEmail, varsSched, varsOverlap >>

NextCalls ==
    \/ ConvertNumber
    \/ ConvertAgain
    \/ ExtractData

SpecCalls ==
    InitCalls /\ [][NextCalls]_vars

(***************************************************************************)
(* Claims about processEmails (SpecEmail).                                 *)
(***************************************************************************)
RunMessages ==
    UNION { Range(runStart.threads[t]) : t \in DOMAIN runStart.threads }

\* the last run began non-forced over items that were all indexed and all
\* materialized
FullyIndexedAndMaterialized ==
    /\ ~runStart.forced
    /\ RunMessages # {}
    /\ \A m \in RunMessages :
         /\ generateEmailId(m) \in Range(runStart.index)
         /\ \A f \in FilenamesOf(m) : runStart.files[f] > 0

\* C1: a non-forced run over a fully indexed, fully materialized input set
\* appends no identifier to the index and creates no artifact: while it runs
\* and when it has ended, the index and the store are as they were at its start.
C1_IdempotentRerun ==
    FullyIndexedAndMaterialized =>
        /\ indexLines = runStart.index
        /\ created = runStart.created
        /\ run.pc = "run" => destFiles = runStart.files

C1_Witness ==
    /\ FullyIndexedAndMaterialized
    /\ run.end = "returned"
    /\ \E m \in RunMessages : m.pdfs > 0

\* C2 (as claimed): no derived filename is ever created a second time, in a
\* later run or later in the same run.
C2_ArtifactCreatedAtMostOnce ==
    \A f \in AllFilenames : created[f] <= 1

\* C3 (as claimed): a forced run does not skip an indexed item, and it creates
\* no artifact whose filename is in the artifact cache of the run.
C3_ForcedRunConsultsCache ==
    (run.pc = "run" /\ run.forceReprocess /\ lastMsg.outcome # "none") =>
        /\ lastMsg.outcome # "skipped"
        /\ lastMsg.made \cap run.existingFilesCache = {}

\* C9 (as claimed): in a non-forced run an item whose identifier was in the
\* index when the run began gets no artifact and no index entry, whether or
\* not its artifact is in the store.
C9_IndexedItemSkipped ==
    ( /\ lastMsg.outcome # "none"
      /\ ~run.forceReprocess
      /\ generateEmailId(lastMsg.message) \in Range(runStart.index) ) =>
        /\ lastMsg.made = {}
        /\ ~lastMsg.pushed

\* the identifiers the last run has appended to the index or holds in its buffer
FreshIds ==
    Range(SubSeq(indexLines, Len(runStart.index) + 1, Len(indexLines)))
      \cup Range(run.newlyProcessed)

\* C10: an identifier enters the pending-write buffer, and then the index,
\* only for an item of which this run created an artifact, or in a forced run;
\* a non-forced run never marks an item whose artifacts are all in its cache.
C10_MarkedOnlyIfCreatedOrForced ==
    /\ lastMsg.pushed => (lastMsg.made # {} \/ run.forceReprocess)
    /\ ( /\ lastMsg.outcome # "none"
         /\ ~run.forceReprocess
         /\ FilenamesOf(lastMsg.message) \subseteq run.existingFilesCache ) =>
           ~lastMsg.pushed
    /\ \A id \in FreshIds :
         \/ runStart.forced
         \/ \E m \in RunMessages :
              /\ generateEmailId(m) = id
              /\ \E f \in FilenamesOf(m) : created[f] > runStart.created[f]

C10_Witness ==
    /\ lastMsg.outcome = "done"
    /\ ~run.forceReprocess
    /\ lastMsg.message.pdfs > 0
    /\ lastMsg.made = {}
    /\ ~lastMsg.pushed

(***************************************************************************)
(* Claims about updateSpreadsheet (SpecLedger).                            *)
(***************************************************************************)
Populated(value) ==
    value # EmptyCell /\ value # BlankText /\ value # Zero

\* C4: updateSpreadsheet never changes a populated cell: every cell of a
\* mapped column that was neither empty, blank nor zero before the invocation
\* holds the same value after it, whatever the records carry.
C4_PopulatedCellsKept ==
    sheetCalls > 0 =>
        /\ Len(ledger) = Len(ledgerBefore)
        /\ \A i \in DOMAIN ledgerBefore : \A column \in SheetColumns :
             Populated(ledgerBefore[i].cells[column]) =>
                 ledger[i].cells[column] = ledgerBefore[i].cells[column]

\* a populated Total Sales met a record of the row's key with another value
C4_Witness ==
    /\ sheetCalls > 0
    /\ \E i \in DOMAIN ledgerBefore : \E r \in Range(lastRows) :
         /\ Populated(ledgerBefore[i].cells["Total Sales"])
         /\ RowMapGet(ledgerBefore,
                      CompositeKey(r.closureDate, r.shift, r.branch)) = i + 1
         /\ r.amounts["totalSales"] # << >>
         /\ convertArgentineNumber(r.amounts["totalSales"])
              # ledgerBefore[i].cells["Total Sales"]

(***************************************************************************)
(* Claims about the batch scheduler (SpecSched, SpecSchedFair).            *)
(***************************************************************************)
Terminal ==
    props.processing_active = "false" /\ triggers = 0

\* C5 (as claimed): after start(), with every scheduled continuation firing,
\* the run reaches Completed or Failed; it does not schedule batches forever.
C5_ForwardProgress ==
    (lastStep.op = "start") ~> Terminal

\* the last operation was a batch step that got past the enumeration
BatchRan ==
    lastStep.outcome \in { "completed", "scheduled" }

PendingIds ==
    { pending[i].id : i \in DOMAIN pending }

\* C6 (as claimed): a batch step completes the run only when no document is
\* left in the source folder, and schedules a continuation whenever one is.
C6_CompletedOnlyWhenNonePending ==
    /\ lastStep.outcome \in { "completed", "nothingPending" } => pending = << >>
    /\ (BatchRan /\ pending # << >>) => lastStep.outcome = "scheduled"

\* C6 (amended): a batch step completes the run exactly when its batch took
\* every document it enumerated (or it enumerated none), and schedules a
\* continuation exactly when it enumerated more than the batch took; the
\* documents of the batch that failed or did not move stay in the folder.
C6_CompletedWhenBatchTookAll ==
    /\ lastStep.outcome = "nothingPending" =>
         /\ lastStep.pendingFiles = << >>
         /\ Terminal
    /\ lastStep.outcome = "completed" =>
         /\ lastStep.pendingFiles # << >>
         /\ lastStep.batchFiles = lastStep.pendingFiles
         /\ Len(lastStep.pendingFiles) <= BATCH_SIZE
         /\ PendingIds = { f.id : f \in Range(lastStep.batchFiles) } \ lastStep.moved
         /\ Terminal
    /\ lastStep.outcome = "scheduled" =>
         /\ Len(lastStep.pendingFiles) > BATCH_SIZE
         /\ Len(lastStep.batchFiles) = BATCH_SIZE
         /\ ~lastStep.pausedMeanwhile => props.processing_active = "true"
         /\ triggers = 1

\* a run completed although a document of its batch stayed in the folder
C6_Witness ==
    /\ lastStep.outcome = "completed"
    /\ lastStep.moved # {}
    /\ pending # << >>

\* C7: a batch attempt that ends in an uncaught error is either rescheduled or
\* ends the run as Failed: it is Failed exactly when the attempt is the
\* MAX_RETRIES-th failed one in a row, the flag is then false and nothing is
\* scheduled; before that a continuation is scheduled and the run stays active
\* (unless it was paused while the attempt ran).
C7_FailedOnMaxRetries ==
    /\ failedInARow <= MAX_RETRIES
    /\ lastStep.outcome \in { "retry", "failed" } =>
         /\ failedInARow > 0
         /\ (lastStep.outcome = "failed") <=> (failedInARow = MAX_RETRIES)
    /\ lastStep.outcome = "retry" =>
         /\ ~lastStep.pausedMeanwhile => props.processing_active = "true"
         /\ triggers = 1
    /\ lastStep.outcome = "failed" =>
         /\ props.processing_active = "false"
         /\ triggers = 0
    /\ BatchRan => failedInARow = 0

\* the third failed attempt in a row, after which the run is Failed
C7_Witness ==
    /\ lastStep.outcome = "failed"
    /\ lastStep.op = "trigger"
    /\ failedInARow = MAX_RETRIES
    /\ props.processing_active = "false"

\* the document's conversion fails or its text has no closure date
LacksClosureDate(pdf) ==
    ~pdf.readable \/ ~pdf.text.closure.present

\* the batch of the last step reached processFiles
FilesProcessed ==
    lastStep.batchFiles # << >>

\* C8: a document without the closure-date pattern, or whose conversion fails,
\* yields exactly one result, an error: it is not counted as successful, no
\* record of it reaches updateSpreadsheet, it is not moved and stays in the
\* source folder; every other document of the batch yields its record, which
\* reaches updateSpreadsheet.
C8_DocumentWithoutDateIsOneError ==
    FilesProcessed =>
        /\ Len(lastStep.rows) = Len(lastStep.batchFiles)
        /\ \A i \in DOMAIN lastStep.batchFiles :
             LET pdf == lastStep.batchFiles[i]
             IN  IF LacksClosureDate(pdf)
                 THEN /\ lastStep.rows[i].error
                      /\ lastStep.rows[i].file = pdf.id
                      /\ \A r \in Range(lastStep.wrote) : r.file # pdf.id
                      /\ pdf.id \notin lastStep.moved
                      /\ pdf.id \in PendingIds
                 ELSE /\ ~lastStep.rows[i].error
                      /\ lastStep.rows[i].file = pdf.id
                      /\ lastStep.rows[i].closureDate = DmyText(pdf.text.closure.day)
                      /\ lastStep.rows[i] \in Range(lastStep.wrote)
        /\ BatchRan =>
             props.files_processed =
                 UpTo(lastStep.before[1].files_processed
                        + Cardinality({ i \in DOMAIN lastStep.batchFiles :
                                          ~LacksClosureDate(lastStep.batchFiles[i]) }))
        /\ lastStep.wrote # << >> =>
             /\ lastRows = lastStep.wrote
             /\ ledger = updateSpreadsheet(ledgerBefore, lastStep.wrote)

\* a batch of a document without closure date and a good one, which moved
C8_Witness ==
    /\ BatchRan
    /\ \E i, j \in DOMAIN lastStep.batchFiles :
         /\ lastStep.batchFiles[i].readable
         /\ ~lastStep.batchFiles[i].text.closure.present
         /\ ~LacksClosureDate(lastStep.batchFiles[j])
         /\ lastStep.batchFiles[j].id \in lastStep.moved
         /\ ledger # ledgerBefore

(***************************************************************************)
(* Further claims about processEmails (SpecEmail).                         *)
(***************************************************************************)
\* every derived file of the message with this identifier is in the store
Materialized(id) ==
    \E m \in AllMessages :
        /\ generateEmailId(m) = id
        /\ FilenamesOf(m) # {}
        /\ \A f \in FilenamesOf(m) : destFiles[f] > 0

\* C11: as long as no file was removed from the destination folder, every
\* identifier of the index file, and every identifier waiting in the buffer
\* of the run, belongs to a message whose derived files are all in the
\* folder: no identifier is marked before its files were created.
C11_IndexImpliesArtifact ==
    deletes = 0 =>
        \A id \in Range(indexLines) \cup Range(run.newlyProcessed) : Materialized(id)

\* a message of two attachments is in the index after a run that returned
C11_Witness ==
    /\ deletes = 0
    /\ run.end = "returned"
    /\ \E m \in AllMessages :
         /\ m.pdfs > 1
         /\ generateEmailId(m) \in Range(indexLines)

\* the identifiers the index file holds beyond those of lines
AppendedSince(lines, now) ==
    Range(SubSeq(now, Len(lines) + 1, Len(now)))

\* the identifiers of the messages of the threads before thread number t
ReachedBefore(threads, t) ==
    { generateEmailId(m) :
        m \in UNION { Range(threads[i]) : i \in 1..(t - 1) } }

\* C12: the step in which a run stops at the time check appends the whole
\* pending buffer to the index file, and when it has returned the index holds,
\* beyond what it held when the run began, only identifiers of messages of
\* the threads the run went through.
C12_TimeLimitFlushesDecided ==
    [][ (run.pc = "run" /\ run'.end = "timeLimit") =>
          /\ indexLines' = indexLines \o run.newlyProcessed
          /\ AppendedSince(runStart.index, indexLines')
               \subseteq ReachedBefore(run.threads, run.threadIndex) ]_vars

\* a run stopped by the time check with identifiers appended and a thread
\* left unreached, whose message is not in the index
C12_Witness ==
    /\ run.end = "timeLimit"
    /\ AppendedSince(runStart.index, indexLines) # {}
    /\ Len(indexLines) % EMAIL_BATCH_SIZE # 0
    /\ \E t \in DOMAIN runStart.threads : \E m \in Range(runStart.threads[t]) :
         /\ m.pdfs > 0
         /\ m.subject.match
         /\ generateEmailId(m) \notin Range(indexLines)

\* C13 (as claimed): once the elapsed time is over the ceiling, the
\* invocation processes no further message.
C13_NoDocumentAfterCeiling ==
    lastMsg.outcome # "none" => ~lastMsg.overtime

\* C14: a batch step invoked while the active flag is not true is a no-op:
\* the properties, the ledger, the source folder and the date folders are as
\* they were, the step ends as paused, and of the scheduled continuations only
\* the one that invoked the step is gone: the step schedules none.
C14_PausedStepIsNoOp ==
    [][ (lastStep'.op = "trigger" /\ props.processing_active # "true") =>
          /\ lastStep'.outcome = "paused"
          /\ props' = props
          /\ ledger' = ledger
          /\ highlighted' = highlighted
          /\ sheetCalls' = sheetCalls
          /\ pending' = pending
          /\ folders' = folders
          /\ triggers' = triggers - 1
          /\ lastStep'.batchFiles = << >> ]_vars

\* a continuation fired on a paused run that has documents pending
C14_Witness ==
    /\ lastStep.op = "trigger"
    /\ lastStep.outcome = "paused"
    /\ lastStep.before[1].processing_active = "false"
    /\ pending # << >>
    /\ triggers = 0

\* the number of documents a batch takes of n pending ones
BatchLength(n) ==
    IF n < BATCH_SIZE THEN n ELSE BATCH_SIZE

\* C15: a pause that arrives while a batch is in progress does not cut the
\* batch short: the batch has a result for each of its documents, its records
\* reach the sheet and the counters are written as without the pause; the
\* flag is false afterwards.  From then on, as long as neither resume nor
\* start has run, the flag stays false and no step takes a document, writes
\* the sheet or moves a file.
C15_PauseHonouredAtNextBatch ==
    /\ [](lastStep.pausedMeanwhile =>
            /\ props.processing_active = "false"
            /\ lastStep.outcome # "paused"
            /\ BatchRan =>
                 /\ Len(lastStep.batchFiles) = BatchLength(Len(lastStep.pendingFiles))
                 /\ Len(lastStep.rows) = Len(lastStep.batchFiles)
                 /\ lastStep.wrote = SuccessfulRows(lastStep.rows)
                 /\ lastStep.wrote # << >> =>
                      ledger = updateSpreadsheet(ledgerBefore, lastStep.wrote)
                 /\ props.current_batch = UpTo(lastStep.before[1].current_batch + 1)
                 /\ props.failed_attempts = 0)
    /\ [][ (props.processing_active = "false"
             /\ lastStep'.op \notin { "start", "resume" }) =>
              /\ props'.processing_active = "false"
              /\ lastStep'.batchFiles = << >>
              /\ pending' = pending
              /\ folders' = folders
              /\ ledger' = ledger
              /\ highlighted' = highlighted ]_vars

\* a batch of BATCH_SIZE documents that moved files and scheduled its
\* continuation although the run was paused while it ran
C15_Witness ==
    /\ lastStep.pausedMeanwhile
    /\ lastStep.outcome = "scheduled"
    /\ Len(lastStep.batchFiles) = BATCH_SIZE
    /\ lastStep.moved # {}
    /\ props.processing_active = "false"
    /\ triggers = 1

\* C16: whatever the state start() is invoked in, the batch step it runs
\* finds the flag true, the batch number 1 and both counts 0, and it runs in
\* the same invocation: it enumerates the folder as start() found it and ends
\* as a batch step does.  No earlier continuation survives: afterwards the
\* only continuation is the one that batch step scheduled.
C16_StartResetsAndRuns ==
    [][ lastStep'.op = "start" =>
          /\ lastStep'.before =
                << [processing_active |-> "true", current_batch |-> 1,
                    files_processed |-> 0, failed_attempts |-> 0] >>
          /\ lastStep'.outcome \in
                { "nothingPending", "completed", "scheduled", "retry" }
          /\ lastStep'.pendingFiles = pending
          /\ lastStep'.outcome \in { "completed", "scheduled" } =>
                lastStep'.batchFiles = Slice(pending, BATCH_SIZE)
          /\ triggers' = IF lastStep'.outcome \in { "scheduled", "retry" }
                         THEN 1 ELSE 0
          /\ failedInARow' = IF lastStep'.outcome = "retry" THEN 1 ELSE 0 ]_vars

\* start() on a run that had filed documents before and finds nothing
\* pending: the run ends with the counters as start() reset them
C16_Witness ==
    /\ lastStep.op = "start"
    /\ lastStep.outcome = "nothingPending"
    /\ folders # NoFolders
    /\ props = [processing_active |-> "false", current_batch |-> 1,
                files_processed |-> 0, failed_attempts |-> 0]
    /\ triggers = 0

\* the documents of the last batch whose result is not an error
SuccessCount ==
    Cardinality({ i \in DOMAIN lastStep.rows : ~lastStep.rows[i].error })

\* the last step took the first documents of what it enumerated, one result
\* each, and wrote the counters of a batch
BatchAdvanced ==
    /\ lastStep.batchFiles = Slice(lastStep.pendingFiles, BATCH_SIZE)
    /\ Len(lastStep.batchFiles) = BatchLength(Len(lastStep.pendingFiles))
    /\ Len(lastStep.rows) = Len(lastStep.batchFiles)
    /\ \A i \in DOMAIN lastStep.rows : lastStep.rows[i].file = lastStep.batchFiles[i].id
    /\ lastStep.moved \subseteq { f.id : f \in Range(lastStep.batchFiles) }
    /\ props.current_batch = UpTo(lastStep.before[1].current_batch + 1)
    /\ props.files_processed = UpTo(lastStep.before[1].files_processed + SuccessCount)
    /\ props.failed_attempts = 0

\* C17 (as claimed): every batch step that ends without an uncaught error,
\* the one that finds no pending document included, takes the first
\* min(BATCH_SIZE, pending) documents and then writes current_batch + 1,
\* files_processed + successes and failed_attempts 0.
C17_EveryStepAdvances ==
    lastStep.outcome \in { "nothingPending", "completed", "scheduled" } =>
        BatchAdvanced

\* C17 (amended): a batch step that finds at least one pending document and
\* ends without an uncaught error does so; a step that finds none takes no
\* document and leaves the three counters as they were.
C17_NonEmptyStepAdvances ==
    /\ BatchRan =>
         /\ lastStep.pendingFiles # << >>
         /\ BatchAdvanced
    /\ lastStep.outcome = "nothingPending" =>
         /\ lastStep.pendingFiles = << >>
         /\ lastStep.batchFiles = << >>
         /\ props = [lastStep.before[1] EXCEPT !.processing_active = "false"]

\* a batch after a failed attempt, of one document in error and a good one
C17_Witness ==
    /\ lastStep.outcome = "scheduled"
    /\ lastStep.before[1].failed_attempts > 0
    /\ props.failed_attempts = 0
    /\ Len(lastStep.batchFiles) = BATCH_SIZE
    /\ SuccessCount = 1
    /\ props.files_processed = lastStep.before[1].files_processed + 1
    /\ props.current_batch = lastStep.before[1].current_batch + 1

\* the last step ended the run as Completed or Failed
RunEnded ==
    lastStep.outcome \in { "completed", "nothingPending", "failed" }

\* C18 (as claimed): a run that has ended as Completed or Failed stays so
\* under every operation but start(): the flag stays false, no continuation
\* exists, and no document is taken, written to the sheet or moved.
C18_TerminalUntilStart ==
    [][ (RunEnded /\ lastStep'.op # "start") =>
          /\ props'.processing_active = "false"
          /\ triggers' = 0
          /\ lastStep'.batchFiles = << >>
          /\ pending' = pending
          /\ folders' = folders
          /\ ledger' = ledger ]_vars

\* the key of a ledger row and of a record
RowKey(row) ==
    CompositeKey(row.date, row.shift, row.branch)

RecordKey(rowData) ==
    CompositeKey(rowData.closureDate, rowData.shift, rowData.branch)

\* the record's key is the key of no row of the ledger
Unmatched(dataRows, rowData) ==
    \A i \in DOMAIN dataRows : RowKey(dataRows[i]) # RecordKey(rowData)

\* C19: updateSpreadsheet leaves the rows of the ledger in place: as many
\* rows after an invocation as before, each with the date, shift, branch and
\* columns it had; a row whose key no record carries is not written, and
\* when no record matches a row nothing is written or highlighted at all.
C19_RowsNeitherAddedNorMoved ==
    sheetCalls > 0 =>
        /\ Len(ledger) = Len(ledgerBefore)
        /\ \A i \in DOMAIN ledgerBefore :
             /\ ledger[i].date = ledgerBefore[i].date
             /\ ledger[i].shift = ledgerBefore[i].shift
             /\ ledger[i].branch = ledgerBefore[i].branch
             /\ DOMAIN ledger[i].cells = DOMAIN ledgerBefore[i].cells
             /\ (\A r \in Range(lastRows) : RecordKey(r) # RowKey(ledgerBefore[i])) =>
                  /\ ledger[i] = ledgerBefore[i]
                  /\ (i + 1) \notin highlighted
        /\ (\A r \in Range(lastRows) : Unmatched(ledgerBefore, r)) =>
             /\ ledger = ledgerBefore
             /\ highlighted = {}

\* two records, one whose key no row has and one that filled a cell of its
\* row, on a ledger of two rows of which the other stayed as it was
C19_Witness ==
    /\ sheetCalls > 0
    /\ Len(ledgerBefore) = MaxLedgerRows
    /\ \E r \in Range(lastRows) :
         /\ Unmatched(ledgerBefore, r)
         /\ r.amounts["totalSales"] # << >>
    /\ \E r \in Range(lastRows) : ~Unmatched(ledgerBefore, r)
    /\ ledger # ledgerBefore
    /\ \E i \in DOMAIN ledger : ledger[i] = ledgerBefore[i]

\* the three ways a day is supplied: a Date value, dd/mm/yyyy, yyyy-mm-dd
DateForms(d) ==
    { DateValue(d), DmyText(d), IsoText(d) }

\* C20: the key of a day is the same for its three forms, so a record finds
\* a row of its day, shift and branch whichever forms the sheet's date cell
\* and the record's date have, and the row the record is merged into is a
\* row of that day.
C20_KeySameForDateForms ==
    /\ \A d \in Days : \A f, g \in DateForms(d) :
         CompositeKey(f, "Morning", "Centro") = CompositeKey(g, "Morning", "Centro")
    /\ \A d, e \in Days : \A f \in DateForms(d), g \in DateForms(e) :
         d # e => CompositeKey(f, "Morning", "Centro") # CompositeKey(g, "Morning", "Centro")
    /\ sheetCalls > 0 =>
         \A r \in Range(lastRows) : \A i \in DOMAIN ledgerBefore :
            (/\ ledgerBefore[i].date \in DateForms(r.closureDate.day)
             /\ r.closureDate \in DateForms(r.closureDate.day)
             /\ ledgerBefore[i].shift = r.shift
             /\ ledgerBefore[i].branch = r.branch) =>
                /\ RowKey(ledgerBefore[i]) = RecordKey(r)
                /\ RowMapGet(ledgerBefore, RecordKey(r)) >= i + 1

\* a dd/mm/yyyy record merged into a ledger that holds its day once as a
\* Date value and once as yyyy-mm-dd text
C20_Witness ==
    /\ sheetCalls > 0
    /\ \E r \in Range(lastRows) :
         /\ r.closureDate = DmyText(1)
         /\ r.amounts["totalSales"] # << >>
         /\ \E i, j \in DOMAIN ledgerBefore :
              /\ ledgerBefore[i].date = DateValue(1)
              /\ ledgerBefore[j].date = IsoText(1)
              /\ RowMapGet(ledgerBefore, RecordKey(r)) \in { i + 1, j + 1 }
    /\ ledger # ledgerBefore

(***************************************************************************)
(* Claims about the pure functions (SpecCalls).                            *)
(***************************************************************************)
\* the number with the integer digits ip and the fraction digits fp
DecimalOf(ip, fp) ==
    Canon(Num(DigitsToNat(ip \o fp), Len(fp)))

\* the call of convertArgentineNumber has returned
Converted ==
    call.fn = "convertArgentineNumber" /\ call.result # Pending

\* the number characters of the argument, without a leading sign
ArgDigitsAndSeparators ==
    LET cleaned == SeqFilter(call.arg, AmountChars)
    IN  IF cleaned # << >> /\ Head(cleaned) = "-" THEN Tail(cleaned) ELSE cleaned

\* C21: convertArgentineNumber reads a text with a ',' as: the digits before
\* the first ',' with every '.' dropped, then the decimals after it; a text
\* without ',' and with more than one '.' as the integer of its digits.  So
\* "1.234,56" and "1234,56" give 1234.56 and "1.234.567" gives 1234567.  What
\* it returns is never negative, and a text without a digit, the empty text
\* included, gives the absent marker and not zero.
C21_SeparatorPrecedence ==
    Converted =>
      LET u  == ArgDigitsAndSeparators
          ip == RemoveAll(UpToFirst(u, ","), ".")
          fp == DigitPrefix(RemoveAll(AfterFirst(u, ","), "."))
          np == RemoveAll(u, ".")
      IN  /\ call.arg = Amt1234 => call.result = Num(123456, 2)
          /\ call.arg = Txt1234c56 => call.result = Num(123456, 2)
          /\ call.arg = Txt1p234p567 => call.result = Num(1234567, 0)
          /\ call.arg = << >> => call.result = Absent
          /\ (/\ Count(u, ",") > 0
              /\ Range(ip) \subseteq Digits
              /\ ip \o fp # << >>) => call.result = DecimalOf(ip, fp)
          /\ (/\ Count(u, ",") = 0
              /\ Count(u, ".") > 1
              /\ Range(np) \subseteq Digits
              /\ np # << >>) => call.result = DecimalOf(np, << >>)
          /\ call.result # Absent =>
                /\ call.result.k = "num"
                /\ call.result.m >= 0
                /\ Range(call.arg) \cap Digits # {}
          /\ Range(call.arg) \cap Digits = {} => call.result = Absent

\* a negative amount with thousands dots and a decimal comma, returned as
\* its absolute value
C21_Witness ==
    /\ Converted
    /\ call.arg = TxtWithdrawal
    /\ call.result = Num(234005, 1)

\* C22: what convertArgentineNumber returns, written as a plain decimal text
\* and given to convertArgentineNumber again, comes back as the same value
\* (the absent marker comes back as the absent marker).
C22_IdempotentOnOutput ==
    (Converted /\ call.again # Pending) => call.again = call.result

\* 1234.56, from "1.234,56", read again from "1234.56"
C22_Witness ==
    /\ Converted
    /\ call.arg = Amt1234
    /\ ToPlainDecimal(call.result) = << "1", "2", "3", "4", ".", "5", "6" >>
    /\ call.again = Num(123456, 2)

\* the call of extractPDFData has returned
Extracted ==
    call.fn = "extractPDFData" /\ call.result # Pending

\* C23: for a closure line of hour h in 0..23 the record's shift is Morning
\* when h is below the cutoff hour and Evening otherwise; the minutes play no
\* part: 14:30:00 is of hour 14, Morning, and 18:00:00 of hour 18, Evening.
C23_ShiftByCutoffHour ==
    /\ HourOf(ClosureTime(14, 30)) = 14
    /\ (Extracted /\ call.arg.closure.present) =>
         /\ call.arg.closure.hour \in Hours
         /\ call.result.shift =
              IF call.arg.closure.hour < SHIFT_CUTOFF_HOUR THEN "Morning" ELSE "Evening"
         /\ call.arg.closure.hour = 14 => call.result.shift = "Morning"
         /\ call.arg.closure.hour = 18 => call.result.shift = "Evening"
         /\ call.result.closureDate = DmyText(call.arg.closure.day)

\* the closure of the cutoff hour itself, which is an Evening one
C23_Witness ==
    /\ Extracted
    /\ call.arg.closure.present
    /\ call.arg.closure.hour = SHIFT_CUTOFF_HOUR
    /\ call.result.shift = "Evening"

(***************************************************************************)
(* Further claims about processEmails (SpecEmail).                         *)
(***************************************************************************)
\* C24 (as claimed): no identifier is on more than one line of the index
\* file, whatever runs, forced or not, have appended to it.
C24_IndexLinesUnique ==
    \A i, j \in DOMAIN indexLines : indexLines[i] = indexLines[j] => i = j

\* the messages of the last run whose identifier was not in the index file
\* when the run began although a file of theirs was in the folder
ArtifactNotIndexed ==
    { m \in RunMessages :
        /\ generateEmailId(m) \notin Range(runStart.index)
        /\ \E f \in FilenamesOf(m) : runStart.files[f] > 0 }

\* C25: a non-forced run creates no file whose name was in the folder when
\* the run began; so for a message whose file an interrupted run left behind
\* without its identifier in the index, the file is not created a second
\* time: the folder has no more files of that name than when the run began.
C25_UnindexedArtifactNotRecreated ==
    ~runStart.forced =>
        /\ \A f \in AllFilenames :
             runStart.files[f] > 0 => created[f] = runStart.created[f]
        /\ \A m \in ArtifactNotIndexed : \A f \in FilenamesOf(m) :
             runStart.files[f] > 0 => destFiles[f] <= runStart.files[f]
        /\ (lastMsg.outcome \in { "done", "error" }) =>
             lastMsg.made \cap run.existingFilesCache = {}

\* the second run, non-forced, went through messages whose files the first
\* run had created before it was cut off with nothing written to the index
C25_Witness ==
    /\ runs = MaxRuns
    /\ ~runStart.forced
    /\ runStart.index = << >>
    /\ ArtifactNotIndexed # {}
    /\ run.end = "returned"
    /\ created = runStart.created
    /\ indexLines = << >>

\* the identifiers of the messages the run has gone through
ReachedSoFar(r) ==
    ReachedBefore(r.threads, r.threadIndex)
      \cup (IF r.threadIndex <= Len(r.threads)
            THEN { generateEmailId(r.threads[r.threadIndex][i]) : i \in 1..(r.msgIndex - 1) }
            ELSE {})

\* C26: the step in which an exception leaves processEmailThreads appends the
\* pending buffer to the index file as it is, each identifier once, or, when
\* that write fails too, leaves the file as it was; the buffer holds
\* identifiers of messages the run went through only, and so does what the
\* run has added to the index.
C26_ErrorPathFlushesOnce ==
    [][ (run.pc = "run" /\ run'.end \in { "error", "errorUnsaved" }) =>
          /\ run'.end = "error" => indexLines' = indexLines \o run.newlyProcessed
          /\ run'.end = "errorUnsaved" =>
                (indexLines' = indexLines /\ run.newlyProcessed # << >>)
          /\ Range(run.newlyProcessed) \subseteq ReachedSoFar(run)
          /\ AppendedSince(runStart.index, indexLines') \subseteq ReachedSoFar(run)
          /\ UNCHANGED << destFiles, created >> ]_vars

\* a run ended by an error in the middle of a thread, its buffer saved, with
\* a message of the mailbox it had not reached left out of the index
C26_Witness ==
    /\ run.end = "error"
    /\ AppendedSince(runStart.index, indexLines) # {}
    /\ Len(indexLines) % EMAIL_BATCH_SIZE # 0
    /\ \E t \in DOMAIN runStart.threads :
         /\ generateEmailId(runStart.threads[t][1]) \in Range(indexLines)
         /\ Len(runStart.threads[t]) > 1
         /\ generateEmailId(runStart.threads[t][2]) \notin Range(indexLines)

(***************************************************************************)
(* Further claims about the scheduler (SpecSched).                         *)
(***************************************************************************)
\* the documents of the last batch that organizeFiles was given, each with
\* the name of its date folder
GroupedWithFolder ==
    { << lastStep.batchFiles[i].id, IsoText(lastStep.batchFiles[i].text.closure.day) >> :
        i \in { j \in DOMAIN lastStep.batchFiles :
                  ~LacksClosureDate(lastStep.batchFiles[j]) } }

\* C27: when the move of a document fails in organizeFiles, every other
\* document of the batch that has a date, of the same date or not, is moved
\* into the folder named after its date and leaves the source folder; the
\* document whose move failed stays.  Each of these dates has its folder
\* afterwards, and no date name ever has more than one folder.
C27_MoveFailureIsolated ==
    /\ \A n \in FolderNames : folders[n] <= 1
    /\ (BatchRan /\ lastStep.wrote # << >>) =>
         /\ lastStep.filed =
              { g \in GroupedWithFolder : g[1] \notin lastStep.moveFails }
         /\ lastStep.moved = { g[1] : g \in lastStep.filed }
         /\ \A g \in GroupedWithFolder :
              /\ folders[g[2]] = 1
              /\ g[1] \in PendingIds <=> g[1] \in lastStep.moveFails

\* a batch of two documents of one date, the first of which could not be
\* moved while the second was filed in the folder of that date
C27_Witness ==
    /\ BatchRan
    /\ lastStep.op = "trigger"
    /\ Len(lastStep.batchFiles) = BATCH_SIZE
    /\ \E d \in Days :
         /\ GroupedWithFolder = { << lastStep.batchFiles[1].id, IsoText(d) >>,
                                  << lastStep.batchFiles[2].id, IsoText(d) >> }
         /\ lastStep.moveFails = { lastStep.batchFiles[1].id }
         /\ lastStep.filed = { << lastStep.batchFiles[2].id, IsoText(d) >> }
         /\ folders[IsoText(d)] = 1

(***************************************************************************)
(* Claims about the maintenance operations of the mailbox (SpecEmail).     *)
(***************************************************************************)
\* the index lines of the messages that the search for a day returns
EntriesOfDay(day) ==
    { l \in Range(runStart.reprocess.before) :
        \E m \in AllMessages : m.day = day /\ TrimLine(generateEmailId(m)) = TrimLine(l) }

\* C28: when reprocessDateEmails(date) with index removal has rewritten the
\* index, no line of a message of that date is left in it, the lines of the
\* messages of other dates are all there in their order, and the run it
\* starts is a forced run over the messages of that date.
C28_DateEntriesRemoved ==
    runStart.reprocess # NoReprocess =>
        LET day == runStart.reprocess.day
        IN  /\ runStart.index =
                 SeqFilter(runStart.reprocess.before,
                           Range(runStart.reprocess.before) \ EntriesOfDay(day))
            /\ runStart.forced
            /\ runStart.threads = Search(day, day)

\* what the rewrite does: with the identifiers this mailbox produces, every
\* line is written back
C28_RewriteKeepsEveryLine ==
    runStart.reprocess # NoReprocess =>
        /\ runStart.index = runStart.reprocess.before
        /\ runStart.forced
        /\ runStart.threads = Search(runStart.reprocess.day, runStart.reprocess.day)

\* reprocessDateEmails called for a day of which the index holds a line
C28_Witness ==
    /\ runStart.reprocess # NoReprocess
    /\ EntriesOfDay(runStart.reprocess.day) # {}
    /\ run.pc = "run"

Diagnosed ==
    call.fn = "diagnoseEmailIssues"

\* the messages the last diagnosis looked at whose subject has the format
DiagnosedMessages ==
    { m \in AllMessages : m.day \in call.arg.startDate..call.arg.endDate
                          /\ m.subject.match }

ReportedMissing(m) ==
    [type |-> "INDEXED_BUT_MISSING_FILE", message |-> m] \in call.result.issues

\* C29: after a diagnosis, a message is reported INDEXED_BUT_MISSING_FILE
\* exactly when the index has its identifier and one of the files it produces
\* is not in the destination folder; the index lines and the files are those
\* of before the diagnosis.
C29_ReportsExactlyMissingFiles ==
    Diagnosed =>
        /\ \A m \in DiagnosedMessages :
              ReportedMissing(m) <=>
                 /\ TrimLine(generateEmailId(m)) \in LoadIndex(indexLines)
                 /\ \E f \in FilenamesOf(m) : destFiles[f] = 0
        /\ indexLines = call.arg.index
        /\ destFiles = call.arg.files

\* the part of C29 that is about repairing: a diagnosis leaves the index
\* lines, the files and the run as they are
C29_DiagnosisRepairsNothing ==
    [][call'.fn = "diagnoseEmailIssues" => UNCHANGED varsEmail]_vars

\* the first way C29 fails: a message with two PDFs is in the index, both its
\* files are there, and it is reported all the same
C29_ReportedWithAllFiles ==
    /\ Diagnosed
    /\ \E m \in DiagnosedMessages :
         /\ ReportedMissing(m)
         /\ m.pdfs > 1
         /\ \A f \in FilenamesOf(m) : destFiles[f] > 0

\* the second way: a message is in the index, its file is gone, and it is not
\* reported, its identifier ending in a blank that the loaded index lacks
C29_MissingNotReported ==
    /\ Diagnosed
    /\ \E m \in DiagnosedMessages :
         /\ ~ReportedMissing(m)
         /\ generateEmailId(m) \in Range(indexLines)
         /\ \E f \in FilenamesOf(m) : destFiles[f] = 0

(***************************************************************************)
(* Overlapping invocations.  Nothing in the source takes a lock, so an     *)
(* invocation can begin while another is between two of its service calls. *)
(* A batch invocation is cut at its reading of the properties, its listing *)
(* of the folder, processFiles and its writing of the progress; a          *)
(* processEmails invocation at the getBlob and the setContent of           *)
(* writeBatchToIndex.                                                      *)
(***************************************************************************)
\* the folders of the overlap model: a batch or more of readable documents,
\* all of the morning of day 1
OverlapFolders ==
    { f \in Folders : Len(f) >= BATCH_SIZE
                      /\ \A i \in DOMAIN f :
                           /\ f[i].readable
                           /\ f[i].text = DocText(Closure(1, 9), Amt950) }

\* the days whose mail the overlapping processEmails invocations search
OverlapDays ==
    { 1, 2 }

\* a run whose first batch has been processed and whose continuation is due
InitOverlap ==
    /\ ledger = SchedLedger
    /\ LedgerIdle
    /\ call = NoCall
    /\ OverlapIdle
    /\ EmailIdle
    /\ props = ProgressProps(StartProps(NoProps), BATCH_SIZE)
    /\ triggers = 1
    /\ pending \in OverlapFolders
    /\ folders = [n \in FolderNames |-> 1]
    /\ lastStep = NoStep
    /\ failedInARow = 0
    /\ extracted = {}

\* a variant of StaleProps that takes the counters as they are when the
\* progress is written
FreshProps(p, inv) ==
    p

\* the properties with the counters the invocation read at lines 60-61, from
\* which lines 94-98 compute what they write
StaleProps(p, inv) ==
    [p EXCEPT !.current_batch = inv.currentBatch,
              !.files_processed = inv.totalProcessed]

\* startProcessing up to its call of processNextBatch (lines 29-37)
ManualBegins ==
    /\ inflight["manual"].pc = "idle"
    /\ triggers' = 0
    /\ props' = StartProps(props)
    /\ inflight' = [inflight EXCEPT !["manual"].pc = "check"]
    /\ UNCHANGED << pending, folders, lastStep, failedInARow, extracted, handled,
                    varsLedger, varsEmail, call >>

\* the trigger that scheduleNextBatch created fires
ScheduledBegins ==
    /\ inflight["scheduled"].pc = "idle"
    /\ triggers > 0
    /\ triggers' = triggers - 1
    /\ inflight' = [inflight EXCEPT !["scheduled"].pc = "check"]
    /\ UNCHANGED << props, pending, folders, lastStep, failedInARow, extracted, handled,
                    varsLedger, varsEmail, call >>

\* lines 53-61 of processNextBatch
ReadsProps(i) ==
    /\ inflight[i].pc = "check"
    /\ inflight' = [inflight EXCEPT ![i] =
                       IF IsActive(props)
                       THEN [@ EXCEPT !.pc = "list",
                                      !.currentBatch = props.current_batch,
                                      !.totalProcessed = props.files_processed]
                       ELSE [@ EXCEPT !.pc = "done"]]
    /\ UNCHANGED << varsSched, handled, varsLedger, varsEmail, call >>

\* lines 68-86 of processNextBatch
ListsFiles(i) ==
    /\ inflight[i].pc = "list"
    /\ IF Len(pending) = 0
       THEN /\ props' = finishProcessing(props)
            /\ triggers' = 0
            /\ inflight' = [inflight EXCEPT ![i].pc = "done"]
       ELSE /\ inflight' = [inflight EXCEPT ![i].pc = "process",
                                            ![i].pendingFiles = pending,
                                            ![i].batchFiles = Slice(pending, BATCH_SIZE)]
            /\ UNCHANGED << props, triggers >>
    /\ UNCHANGED << pending, folders, lastStep, failedInARow, extracted, handled,
                    varsLedger, varsEmail, call >>

\* processFiles(batchFiles) of line 88, on the documents the invocation
\* listed, wherever they are by now
ProcessesFiles(i) ==
    /\ inflight[i].pc = "process"
    /\ LET batchFiles == inflight[i].batchFiles
           rows       == FileResults(batchFiles)
           successful == Len(SuccessfulRows(rows))
           moved      == MovedFiles(batchFiles, {})
       IN  /\ IF successful > 0
              THEN /\ UpdateSheet(SuccessfulRows(rows))
                   /\ folders' = organizeFolders(folders, batchFiles)
                   /\ pending' = SeqFilter(pending,
                                    { f \in Range(pending) : f.id \notin moved })
              ELSE UNCHANGED << pending, folders, varsLedger >>
           /\ inflight' = [inflight EXCEPT ![i].pc = "progress",
                                            ![i].successful = successful]
           /\ handled' = [handled EXCEPT !.times =
                             [id \in DOMAIN @ |->
                                IF \E k \in DOMAIN batchFiles : batchFiles[k].id = id
                                THEN @[id] + 1 ELSE @[id]]]
    /\ UNCHANGED << props, triggers, lastStep, failedInARow, extracted, varsEmail, call >>

\* lines 94-113 of processNextBatch
WritesProgress(i) ==
    /\ inflight[i].pc = "progress"
    /\ LET q    == ProgressProps(StaleProps(props, inflight[i]), inflight[i].successful)
           more == MoreFilesRemain(inflight[i].pendingFiles, inflight[i].batchFiles)
       IN  /\ props' = IF more THEN q ELSE finishProcessing(q)
           /\ triggers' = IF more THEN 1 ELSE 0
    /\ inflight' = [inflight EXCEPT ![i].pc = "done"]
    /\ handled' = [handled EXCEPT !.discarded =
                      IF << props.current_batch, props.files_processed >>
                           # << inflight[i].currentBatch, inflight[i].totalProcessed >>
                      THEN @ \cup { i } ELSE @]
    /\ UNCHANGED << pending, folders, lastStep, failedInARow, extracted,
                    varsLedger, varsEmail, call >>

RECURSIVE Flatten(_)
\* the messages of the threads in the order of the two forEach
Flatten(threads) ==
    IF threads = << >> THEN << >> ELSE Head(threads) \o Flatten(Tail(threads))

RECURSIVE CollectBatch(_, _, _, _)
\* the loop of processEmailThreads (not forced, nothing thrown) from the
\* message at the head of todo up to its next batch write: the messages
\* left, the buffer, and the files created for each message
CollectBatch(todo, buffer, processedEmails, existingFilesCache) ==
    IF todo = << >>
    THEN [todo |-> << >>, buffer |-> buffer, made |-> << >>]
    ELSE
      LET message == Head(todo)
          emailId == generateEmailId(message)
          name(i) == generateFilename(message.subject, i, message.pdfs)
          reached == /\ ~SkipsMessage(FALSE, processedEmails, emailId)
                     /\ message.subject.match
                     /\ message.pdfs > 0
          made    == IF reached
                     THEN { name(i) : i \in { j \in 1..message.pdfs :
                                CreatesFile(FALSE, existingFilesCache, name(j)) } }
                     ELSE {}
          buf     == IF reached /\ MarksProcessed(made # {}, FALSE)
                     THEN Append(buffer, emailId) ELSE buffer
      IN  IF made # {} /\ Len(buf) >= EMAIL_BATCH_SIZE
          THEN [todo |-> Tail(todo), buffer |-> buf, made |-> << made >>]
          ELSE LET rest == CollectBatch(Tail(todo), buf, processedEmails,
                                        existingFilesCache)
               IN  [rest EXCEPT !.made = << made >> \o @]

RECURSIVE AddAllFiles(_, _)
AddAllFiles(files, made) ==
    IF made = << >> THEN files
    ELSE AddAllFiles(AddFiles(files, Head(made)), Tail(made))

\* processEmails(day, day) up to the loop over the threads
MailBegins(i, day) ==
    /\ inflight[i].pc = "idle"
    /\ inflight' = [inflight EXCEPT ![i] =
                       IF Len(Search(day, day)) = 0 THEN [@ EXCEPT !.pc = "done"]
                       ELSE [@ EXCEPT !.pc = "loop",
                                      !.todo = Flatten(Search(day, day)),
                                      !.processedEmails = LoadIndex(indexLines),
                                      !.existingFilesCache =
                                          buildExistingFilesCache(destFiles)]]
    /\ UNCHANGED << handled, varsLedger, varsEmail, varsSched, call >>

\* the loop up to the next call of writeBatchToIndex, or to the return when
\* there is nothing to write
MailCollects(i) ==
    /\ inflight[i].pc = "loop"
    /\ LET c == CollectBatch(inflight[i].todo, inflight[i].newlyProcessed,
                             inflight[i].processedEmails,
                             inflight[i].existingFilesCache)
       IN  /\ destFiles' = AddAllFiles(destFiles, c.made)
           /\ created' = AddAllFiles(created, c.made)
           /\ inflight' = [inflight EXCEPT
                             ![i].todo = c.todo,
                             ![i].newlyProcessed = c.buffer,
                             ![i].pc = IF Len(c.buffer) > 0 THEN "getBlob" ELSE "done"]
    /\ UNCHANGED << indexLines, run, runStart, lastMsg, runs, deletes,
                    handled, varsLedger, varsSched, call >>

\* line 1264 of writeBatchToIndex
MailReadsIndex(i) ==
    /\ inflight[i].pc = "getBlob"
    /\ inflight' = [inflight EXCEPT ![i].pc = "setContent",
                                    ![i].currentContent = indexLines]
    /\ UNCHANGED << handled, varsLedger, varsEmail, varsSched, call >>

\* lines 1265-1267 of writeBatchToIndex, and on to the loop or to the return
MailWritesIndex(i) ==
    /\ inflight[i].pc = "setContent"
    /\ indexLines' = writeBatchToIndex(inflight[i].currentContent,
                                       inflight[i].newlyProcessed)
    /\ inflight' = [inflight EXCEPT
                      ![i].pc = IF inflight[i].todo = << >> THEN "done" ELSE "loop",
                      ![i].processedEmails = @ \cup Range(inflight[i].newlyProcessed),
                      ![i].newlyProcessed = << >>]
    /\ handled' = [handled EXCEPT !.appended = @ \cup Range(inflight[i].newlyProcessed)]
    /\ UNCHANGED << destFiles, created, run, runStart, lastMsg, runs, deletes,
                    varsLedger, varsSched, call >>

NextOverlap ==
    \/ ManualBegins
    \/ ScheduledBegins
    \/ \E i \in BatchInvocations : ReadsProps(i)
    \/ \E i \in BatchInvocations : ListsFiles(i)
    \/ \E i \in BatchInvocations : ProcessesFiles(i)
    \/ \E i \in BatchInvocations : WritesProgress(i)
    \/ \E i \in MailInvocations, day \in OverlapDays : MailBegins(i, day)
    \/ \E i \in MailInvocations : MailCollects(i)
    \/ \E i \in MailInvocations : MailReadsIndex(i)
    \/ \E i \in MailInvocations : MailWritesIndex(i)

SpecOverlap ==
    InitOverlap /\ [][NextOverlap]_vars

(***************************************************************************)
(* Claims about overlapping invocations (SpecOverlap).                     *)
(***************************************************************************)
\* C30: invocations are not kept apart, and what each writes comes from what
\* it read earlier.  An invocation of processNextBatch writes the counters
\* it read at its beginning, advanced by its own batch, whatever another
\* invocation has written since; writeBatchToIndex writes the content it
\* read with its buffer appended, whatever was written to the file since.
\* So a document can be processed by two invocations, and a write of the
\* counters or of the index by one of them can be lost (C30_Witness).
C30_WritesFromOwnReads ==
    [][ /\ \A i \in BatchInvocations :
             (inflight[i].pc = "progress" /\ inflight'[i].pc = "done") =>
                /\ props'.current_batch = UpTo(inflight[i].currentBatch + 1)
                /\ props'.files_processed =
                      UpTo(inflight[i].totalProcessed + inflight[i].successful)
        /\ \A i \in MailInvocations :
             (inflight[i].pc = "setContent" /\ inflight'[i].pc # "setContent") =>
                indexLines' = inflight[i].currentContent \o inflight[i].newlyProcessed
      ]_vars

\* a manual start and a continuation have both processed the same document,
\* one of them wrote its counters over those the other had written, and an
\* identifier that one processEmails invocation wrote to the index is no
\* longer there after the write of the other
C30_Witness ==
    /\ \A i \in BatchInvocations : inflight[i].pc = "done"
    /\ \E id \in DOMAIN handled.times : handled.times[id] = 2
    /\ handled.discarded # {}
    /\ \E id \in handled.appended : id \notin Range(indexLines)

(***************************************************************************)
(* Claims about the retry counter (SpecSched).                             *)
(***************************************************************************)
\* C31: every batch attempt that ends in an uncaught error leaves the
\* failed_attempts property one higher than it found it, the attempt that
\* ends the run as Failed included; after that attempt the property is
\* MAX_RETRIES.
C31_EveryFailureCounted ==
    /\ lastStep.outcome \in { "retry", "failed" } =>
         props.failed_attempts = lastStep.before[1].failed_attempts + 1
    /\ lastStep.outcome = "failed" => props.failed_attempts = MAX_RETRIES

\* what handleError does: the attempts before the last are counted, the one
\* that ends the run is not written
C31_LastFailureNotWritten ==
    /\ lastStep.outcome = "retry" =>
         props.failed_attempts = lastStep.before[1].failed_attempts + 1
    /\ lastStep.outcome = "failed" =>
         /\ props.failed_attempts = lastStep.before[1].failed_attempts
         /\ props.failed_attempts = MAX_RETRIES - 1

(***************************************************************************)
(* Further claims about updateSpreadsheet (SpecLedger).                    *)
(***************************************************************************)
\* the records of the last invocation that were merged into data row i and
\* carry the field
CarriedFor(i, dataField) ==
    { r \in Range(lastRows) :
        /\ RowMapGet(ledgerBefore, RecordKey(r)) = i + 1
        /\ r.amounts[dataField] # << >> }

\* C32: a field that a record lacks causes no write: a cell of a mapped
\* column holds after the invocation what it held before unless a record
\* merged into its row carries the column's field; in particular it is not
\* set to zero.
C32_AbsentFieldWritesNothing ==
    sheetCalls > 0 =>
        \A i \in DOMAIN ledgerBefore : \A k \in DOMAIN fieldMappings :
            CarriedFor(i, fieldMappings[k][1]) = {} =>
                ledger[i].cells[fieldMappings[k][2]]
                  = ledgerBefore[i].cells[fieldMappings[k][2]]

\* a record with total sales and without cash sales filled the free Total
\* Sales cell of its row, whose free Cash Sales cell stayed empty
C32_Witness ==
    /\ sheetCalls > 0
    /\ \E i \in DOMAIN ledgerBefore : \E r \in Range(lastRows) :
         /\ RowMapGet(ledgerBefore, RecordKey(r)) = i + 1
         /\ r.amounts["totalSales"] # << >>
         /\ r.amounts["cashSales"] = << >>
         /\ CarriedFor(i, "cashSales") = {}
         /\ ledgerBefore[i].cells["Cash Sales"] = EmptyCell
         /\ ledger[i].cells["Cash Sales"] = EmptyCell
         /\ ledger[i].cells["Total Sales"] # ledgerBefore[i].cells["Total Sales"]

(***************************************************************************)
(* Further claims about processEmailThreads (SpecEmail).                   *)
(***************************************************************************)
\* the step went through one message and the loop goes on
MessageStep ==
    /\ run.pc = "run"
    /\ run'.pc = "run"
    /\ << run'.threadIndex, run'.msgIndex >> # << run.threadIndex, run.msgIndex >>

\* C33: a message whose subject does not have the format, or for which
\* createFile throws, is an error of that message alone: the step neither
\* puts its identifier into the buffer nor writes the index, and the loop
\* goes on with the message after it.
C33_ErrorStaysWithItsMessage ==
    [][ (MessageStep /\ lastMsg'.outcome \in { "invalid", "error" }) =>
          /\ ~lastMsg'.pushed
          /\ ~lastMsg'.flushed
          /\ indexLines' = indexLines
          /\ run' = Advance(run)
          /\ generateEmailId(lastMsg'.message) \notin Range(run'.newlyProcessed)
      ]_vars

\* in a non-forced run on an empty index and an empty folder the first Sur
\* message is in neither the buffer nor the index, which only an error at
\* its createFile explains, and the message after it was processed and marked
C33_Witness ==
    /\ ~runStart.forced
    /\ runStart.index = << >>
    /\ \A f \in AllFilenames : runStart.files[f] = 0
    /\ run.pc = "run"
    /\ lastMsg.message = Mailbox[1][2]
    /\ lastMsg.outcome = "done"
    /\ lastMsg.pushed
    /\ generateEmailId(Mailbox[1][1]) \notin Range(run.newlyProcessed) \cup Range(indexLines)

\* the lines of before are the first lines of now
IsPrefix(before, now) ==
    /\ Len(before) <= Len(now)
    /\ SubSeq(now, 1, Len(before)) = before

\* the step is reprocessDateEmails rewriting the index
RewriteStep ==
    runStart' # runStart /\ runStart'.reprocess # NoReprocess

\* C34: processEmails only appends to the index file: after every step but
\* the rewrite of reprocessDateEmails the lines of before the step are the
\* first lines of the file, unchanged and in their order, and at every point
\* of a run the file begins with the lines it had when the run began,
\* however the run ends.
C34_IndexOnlyAppended ==
    /\ [][ ~RewriteStep => IsPrefix(indexLines, indexLines') ]_vars
    /\ [] IsPrefix(runStart.index, indexLines)

\* a run that found lines in the index ended in the error path after it had
\* appended to them
C34_Witness ==
    /\ run.end = "error"
    /\ runStart.index # << >>
    /\ Len(indexLines) > Len(runStart.index)
    /\ IsPrefix(runStart.index, indexLines)

(***************************************************************************)
(* C35: with at most one invocation live at a time, at most one            *)
(* continuation of the batch step is scheduled in every reachable state,   *)
(* and none is scheduled in a state where the active flag is false.  The   *)
(* states of one invocation at a time are those the last operation reached *)
(* with no pauseProcessing running inside it; from whatever state such an  *)
(* operation starts, it leaves the triggers as the claim says.             *)
(***************************************************************************)
C35_ContinuationOnlyWhileActive ==
    ~lastStep.pausedMeanwhile =>
        /\ triggers <= 1
        /\ ~IsActive(props) => triggers = 0

\* C35 witness: a run with a continuation scheduled and documents left was
\* paused, and the pause took the continuation with it
C35_Witness ==
    /\ lastStep.op = "pause"
    /\ ~IsActive(props)
    /\ props.current_batch > 1
    /\ pending # << >>
    /\ triggers = 0

(***************************************************************************)
(* C36: the run is never left active with nothing to drive it: whenever    *)
(* the active flag is true and no invocation is running, a continuation of *)
(* the batch step is scheduled.  Every state of the model lies between two *)
(* invocations.                                                            *)
(***************************************************************************)
C36_ActiveRunIsDriven ==
    IsActive(props) => triggers > 0

\* C36: the active states with no continuation are those resumeProcessing
\* left, which stops at its alert before it reaches the batch step
C36_UndrivenOnlyAfterResume ==
    (IsActive(props) /\ triggers = 0) => lastStep.op = "resume"

(***************************************************************************)
(* C37: within one updateSpreadsheet invocation each ledger cell is        *)
(* written at most once: when two incoming records share a CompositeKey, a *)
(* value written for the earlier record is not overwritten by the later    *)
(* record in the same invocation.                                          *)
(***************************************************************************)
C37_CellWrittenOnce ==
    sheetCalls > 0 =>
        LET updates == CollectUpdates(ledgerBefore, lastRows)
            SameCell(i, j) == /\ updates[i].row = updates[j].row
                              /\ updates[i].column = updates[j].column
        IN  /\ \A i, j \in DOMAIN updates : SameCell(i, j) => i = j
            /\ \A i \in DOMAIN updates :
                  (\A j \in DOMAIN updates : SameCell(i, j) => i <= j) =>
                      ledger[updates[i].row - 1].cells[updates[i].column]
                        = updates[i].value

\* C37: every update collected is applied in the order of its record, so a
\* cell holds the value of the last update collected for it
C37_LastUpdateOfACellStays ==
    sheetCalls > 0 =>
        LET updates == CollectUpdates(ledgerBefore, lastRows)
        IN  \A i \in DOMAIN updates :
                (\A j \in DOMAIN updates :
                    (updates[i].row = updates[j].row
                     /\ updates[i].column = updates[j].column) => j <= i) =>
                    ledger[updates[i].row - 1].cells[updates[i].column]
                      = updates[i].value

(***************************************************************************)
(* C38: updateSpreadsheet is idempotent on ledger values: for every ledger *)
(* and every list of records, applying the same records a second time      *)
(* leaves every cell value equal to its value after the first application. *)
(***************************************************************************)
SecondApplication ==
    sheetCalls = 1 /\ sheetCalls' = 2

C38_SecondApplicationChangesNoValue ==
    [][ SecondApplication =>
          /\ Len(ledger') = Len(ledger)
          /\ \A i \in DOMAIN ledger : ledger'[i].cells = ledger[i].cells ]_vars

\* C38 witness: two records of one key with different amounts were applied
\* twice and the first application wrote a cell; a zero amount was written
\* too, so the second application found that cell free and wrote it again
C38_Witness ==
    /\ sheetCalls = 2
    /\ ledger # ledgerBefore
    /\ CollectUpdates(ledger, lastRows) # << >>
    /\ \E i, j \in DOMAIN lastRows :
          /\ i < j
          /\ RecordKey(lastRows[i]) = RecordKey(lastRows[j])
          /\ lastRows[i].amounts # lastRows[j].amounts

(***************************************************************************)
(* C39: totalProcessedCount never double-counts: in every state reachable  *)
(* after start(), files_processed is at most the number of distinct source *)
(* documents whose extraction succeeded since that start, including when   *)
(* relocating a document fails and it stays in the source folder.          *)
(***************************************************************************)
C39_NoDocumentCountedTwice ==
    props.files_processed <= Cardinality(extracted)

(***************************************************************************)
(* C40: every document that a batch counts as successful and moves out of  *)
(* the source folder had its record applied to the ledger first: its       *)
(* matching ledger row exists and, after the batch, each mapped field the  *)
(* record carries is either the record's value or was already populated;   *)
(* a document is never moved while its record was dropped for want of a    *)
(* matching row.                                                           *)
(***************************************************************************)
C40_MovedDocumentWasApplied ==
    \A i \in DOMAIN lastStep.batchFiles :
        lastStep.batchFiles[i].id \in lastStep.moved =>
            LET rowData  == lastStep.rows[i]
                sheetRow == RowMapGet(ledgerBefore, RecordKey(rowData))
            IN  /\ sheetRow # 0
                /\ \A k \in DOMAIN fieldMappings :
                      rowData.amounts[fieldMappings[k][1]] # << >> =>
                          \/ ledger[sheetRow - 1].cells[fieldMappings[k][2]]
                               = convertArgentineNumber(
                                   rowData.amounts[fieldMappings[k][1]])
                          \/ Populated(ledgerBefore[sheetRow - 1]
                                         .cells[fieldMappings[k][2]])

====
